---- MODULE Spec2Model ----
(***************************************************************************)
(* Model of the backtest core: Order/Position value objects, Portfolio     *)
(* (cash and position bookkeeping with average-cost accounting),           *)
(* Strategy (position view), Engine.run (bar loop) and the                  *)
(* TransactionCostEngine that decorates it.                                *)
(*                                                                         *)
(* Python objects are modelled with a heap: a Position is a heap cell      *)
(* addressed by a reference, and every dict (Portfolio._positions,         *)
(* Strategy._positions, a dict returned by get_positions) maps tickers to  *)
(* references.  Two dicts holding the same reference share one mutable     *)
(* Position, exactly as in Python.  Cells no dict refers to are recycled.  *)
(*                                                                         *)
(* Money is modelled exactly: prices, quantities and cash are integers,    *)
(* avg_cost is a reduced fraction <<numerator, denominator>>.  Rounding of *)
(* IEEE doubles is outside the model.                                      *)
(***************************************************************************)
EXTENDS Integers, Sequences, FiniteSets, TLC

VARIABLES
    cash,            \* Portfolio.cash
    initial_cash,    \* Portfolio.initial_cash
    positions,       \* Portfolio._positions : ticker -> reference (NoRef: no key)
    heap,            \* reference -> Position object
    snap,            \* the dict a caller got from get_positions()
    snapRet,         \* history: value returned by the last get_positions(), {} after a trade
    ncalls,          \* history: number of operations the client performed
    last,            \* history: the last call, its arguments, result and pre-state
    pc,              \* "client", or where Engine.run stands
    engine_cash,     \* Engine.initial_cash
    data,            \* Engine.run's argument data
    idx,             \* index in data of the bar of the current iteration
    orders,          \* the list on_data returned for that bar
    k,               \* index in orders of the next order
    spos,            \* Strategy._positions : ticker -> reference
    total_orders,    \* local of Engine.run
    executed_orders, \* local of Engine.run
    results,         \* what run returned: {} or {Results}
    engine_class,    \* "Engine" or "TransactionCostEngine"
    transaction_cost_pct, \* TransactionCostEngine.transaction_cost_pct
    base_results,    \* local results of TransactionCostEngine.run: what
                     \* super().run returned, {} before it returns
    script,          \* history: the lists on_data returned in this run, per bar
    calls,           \* history: how often this run called each method
    first,           \* history: {} or the inputs and outcome of the first of
                     \* two runs of one engine
    investment_per_ticker, \* BuyAndHoldStrategy.investment_per_ticker
    bought_tickers,  \* BuyAndHoldStrategy._bought_tickers
    cached_data,     \* StatisticalTester._cached_data : file -> 0 (no key), or
                     \* the invocation that parsed and stored the file's bars
    start_file,      \* locals of run_cross_sectional_test
    end_file,
    selected_tickers,
    benchmark_return,
    ti,              \* index in selected_tickers of the loop's instrument
    stat_results,    \* the local list results
    summary,         \* {} or the StatTestSummary returned
    invocation,      \* history: number of run_cross_sectional_test calls so far
    parses,          \* history: file -> from_polygon_csv calls of this invocation
    outcomes,        \* history: what became of each instrument processed
    cache_reads,     \* history: the reads of _cached_data entries
    cache_stores,    \* history: file -> assignments of its _cached_data entry
    file_bars,       \* the rows of the file given to select_stocks
    rng,             \* the state of the random module's generator
    selections       \* history: the select_stocks calls and their results

portfolioVars == <<cash, initial_cash, positions>>
clientVars == <<snap, snapRet, ncalls>>
engineVars == <<pc, engine_cash, data, idx, orders, k, spos, total_orders,
                executed_orders, results, engine_class, transaction_cost_pct,
                base_results, script, calls, first>>
strategyVars == <<investment_per_ticker, bought_tickers>>
testerVars == <<cached_data, start_file, end_file, selected_tickers,
                benchmark_return, ti, stat_results, summary, invocation,
                parses, outcomes, cache_reads, cache_stores>>
selectorVars == <<file_bars, rng, selections>>
\* the Portfolio, its caller, the Engine and the Strategy view, but for pc
backtestVars == <<cash, initial_cash, positions, heap, snap, snapRet, ncalls,
                  last, engine_cash, data, idx, orders, k, spos, total_orders,
                  executed_orders, results, engine_class,
                  transaction_cost_pct, base_results, script, calls, first>>
vars == <<cash, initial_cash, positions, heap, snap, snapRet, ncalls, last,
          pc, engine_cash, data, idx, orders, k, spos, total_orders,
          executed_orders, results, engine_class, transaction_cost_pct,
          base_results, script, calls, first, investment_per_ticker,
          bought_tickers, cached_data, start_file, end_file,
          selected_tickers, benchmark_return, ti, stat_results, summary,
          invocation, parses, outcomes, cache_reads, cache_stores, file_bars,
          rng, selections>>

----------------------------------------------------------------------------
\* Bounds of the model
MaxQty == 2          \* order quantities are 1..MaxQty
MaxPrice == 2        \* execution prices and bar closes are 0..MaxPrice
MaxCalls == 3        \* operations a client performs on one Portfolio
InitialCash == 3     \* the initial_cash a Portfolio or Engine is built with
MaxBars == 2         \* length of the data given to Engine.run, and its timestamps
MaxOrders == 2       \* orders a strategy returns during one run
MaxInvestment == 4   \* a BuyAndHoldStrategy's investment_per_ticker is 1..MaxInvestment
MaxStocks == 2       \* instruments select_stocks returns to the tester
MaxInvocations == 2  \* run_cross_sectional_test calls on one StatisticalTester
MaxRows == 3         \* rows of the file select_stocks reads
MaxCandidates == 2   \* length of top_candidates: stands for the 500 of
                     \* line 130, which no file of MaxRows rows would reach

Tickers == {"A", "B"}
Sides == {"buy", "sell"}
Quantities == 1..MaxQty
ExecPrices == 0..MaxPrice

NoRef == 0
NumRefs == 3 * Cardinality(Tickers) + 1
Refs == 1..NumRefs

----------------------------------------------------------------------------
\* Exact fractions, standing for Python floats
Abs(x) == IF x < 0 THEN 0 - x ELSE x

RECURSIVE GCD(_, _)
GCD(a, b) == IF b = 0 THEN a ELSE GCD(b, a % b)

\* n / d for d # 0, reduced, denominator positive
Rat(n, d) ==
    LET s == IF d < 0 THEN 0 - 1 ELSE 1
        g == GCD(Abs(n), Abs(d))
    IN  <<(s * n) \div g, (s * d) \div g>>

RatOfInt(n) == <<n, 1>>

----------------------------------------------------------------------------
\* order.py

\* price = None
NoPrice == 0
LimitPrices == 1..MaxPrice

\* Order(side, ticker, quantity, price): __post_init__ admits only
\* quantity > 0 and a price that is None or > 0.
\* Orders: the market orders (price = None)
Orders == [side : Sides, ticker : Tickers, quantity : Quantities,
           price : {NoPrice}]

\* the same orders carrying a limit price
LimitOrders == [side : Sides, ticker : Tickers, quantity : Quantities,
                price : LimitPrices]

NoOrder == [side |-> "-", ticker |-> "-", quantity |-> 0, price |-> NoPrice]

is_buy(order) == order.side = "buy"

\* Position(ticker, quantity, avg_cost), a mutable dataclass
Position(ticker, quantity, avg_cost) ==
    [ticker |-> ticker, quantity |-> quantity, avg_cost |-> avg_cost]

\* Position.__post_init__ raises ValueError when avg_cost < 0
PositionRaises(avg_cost) == avg_cost[1] < 0

is_flat(position) == position.quantity = 0

\* a recycled heap cell
FreeCell == Position("-", 0, RatOfInt(0))

----------------------------------------------------------------------------
\* Heap helpers

\* the references a dict holds
RefsOf(dict) == {dict[t] : t \in Tickers} \ {NoRef}

\* the lowest reference not in use: where a new object is placed
NewRef(used) == CHOOSE r \in Refs \ used : \A s \in Refs \ used : r <= s

\* recycle every cell that no dict refers to
Collect(hp, live) == [r \in Refs |-> IF r \in live THEN hp[r] ELSE FreeCell]

EmptyDict == [t \in Tickers |-> NoRef]

\* the value of a dict: per ticker the set holding its Position, {} when no key
ValueOf(dict, hp) ==
    [t \in Tickers |-> IF dict[t] = NoRef THEN {} ELSE {hp[dict[t]]}]

\* signed quantity held in a dict value for a ticker, 0 when absent
QtyOf(view, t) == IF view[t] = {} THEN 0 ELSE (CHOOSE p \in view[t] : TRUE).quantity

----------------------------------------------------------------------------
\* portfolio.py.  The methods are operators from the object's fields (cash,
\* pos = _positions, hp = heap) to the fields after the call and its outcome:
\* ret is "True", "False" or "ValueError" (the call raised).
\* others: the references held outside the Portfolio, which a new Position
\* object cannot coincide with.

\* NewAvgCost with the two prices averaged without their quantities
NewAvgCost_Unweighted(current_position, quantity_change, price, total_quantity) ==
    IF \/ (current_position.quantity > 0 /\ quantity_change > 0)
       \/ (current_position.quantity < 0 /\ quantity_change < 0)
    THEN Rat(current_position.avg_cost[1] + price * current_position.avg_cost[2],
             2 * current_position.avg_cost[2])
    ELSE current_position.avg_cost

\* NewAvgCost with the cost basis reset to the fill price when the position
\* changes sign
NewAvgCost_ResetOnFlip(current_position, quantity_change, price, total_quantity) ==
    IF \/ (current_position.quantity > 0 /\ quantity_change > 0)
       \/ (current_position.quantity < 0 /\ quantity_change < 0)
    THEN Rat(current_position.quantity * current_position.avg_cost[1]
               + quantity_change * price * current_position.avg_cost[2],
             current_position.avg_cost[2] * total_quantity)
    ELSE IF current_position.quantity * total_quantity < 0
         THEN RatOfInt(price)
         ELSE current_position.avg_cost

\* lines 98-108: the average cost of an existing position after a change that
\* leaves it non-zero
NewAvgCost(current_position, quantity_change, price, total_quantity) ==
    IF \/ (current_position.quantity > 0 /\ quantity_change > 0)
       \/ (current_position.quantity < 0 /\ quantity_change < 0)
    THEN \* total_cost / total_quantity
         Rat(current_position.quantity * current_position.avg_cost[1]
               + quantity_change * price * current_position.avg_cost[2],
             current_position.avg_cost[2] * total_quantity)
    ELSE current_position.avg_cost

\* lines 85-89 and 110-114:
\* self._positions[ticker] = Position(ticker, quantity, avg_cost); the
\* constructor may raise, and then nothing is stored
StorePosition(pos, hp, others, ticker, quantity, avg_cost) ==
    IF PositionRaises(avg_cost)
    THEN [raised |-> TRUE, positions |-> pos, heap |-> hp]
    ELSE LET r == NewRef(others \cup RefsOf(pos))
         IN  [raised |-> FALSE,
              positions |-> [pos EXCEPT ![ticker] = r],
              heap |-> [hp EXCEPT ![r] = Position(ticker, quantity, avg_cost)]]

\* _update_position that stores a closed position instead of deleting it
Portfolio_update_position_KeepFlat(pos, hp, others, ticker, quantity_change, price) ==
    IF pos[ticker] = NoRef
    THEN StorePosition(pos, hp, others, ticker, quantity_change, RatOfInt(price))
    ELSE LET current_position == hp[pos[ticker]]
             total_quantity == current_position.quantity + quantity_change
         IN  StorePosition(pos, hp, others, ticker, total_quantity,
                 IF total_quantity = 0
                 THEN current_position.avg_cost
                 ELSE NewAvgCost(current_position, quantity_change, price,
                                 total_quantity))

\* lines 79-114
Portfolio_update_position(pos, hp, others, ticker, quantity_change, price) ==
    IF pos[ticker] = NoRef
    THEN StorePosition(pos, hp, others, ticker, quantity_change, RatOfInt(price))
    ELSE LET current_position == hp[pos[ticker]]
             total_quantity == current_position.quantity + quantity_change
         IN  IF total_quantity = 0
             THEN [raised |-> FALSE,
                   positions |-> [pos EXCEPT ![ticker] = NoRef],
                   heap |-> hp]
             ELSE StorePosition(pos, hp, others, ticker, total_quantity,
                      NewAvgCost(current_position, quantity_change, price,
                                 total_quantity))

\* the outcome of a method that changed cash by delta and then called
\* _update_position: an exception leaves the cash change in place
AfterUpdate(c, u) ==
    [ret |-> IF u.raised THEN "ValueError" ELSE "True",
     cash |-> c, positions |-> u.positions, heap |-> u.heap]

\* _execute_buy that declines a buy worth exactly the cash
Portfolio_execute_buy_StrictFunds(c, pos, hp, others, order, price, trade_value) ==
    IF trade_value >= c
    THEN [ret |-> "False", cash |-> c, positions |-> pos, heap |-> hp]
    ELSE AfterUpdate(c - trade_value,
             Portfolio_update_position(pos, hp, others, order.ticker,
                                       order.quantity, price))

\* _execute_buy that debits the cash before it checks the funds
Portfolio_execute_buy_DebitFirst(c, pos, hp, others, order, price, trade_value) ==
    IF trade_value > c
    THEN [ret |-> "False", cash |-> c - trade_value, positions |-> pos,
          heap |-> hp]
    ELSE AfterUpdate(c - trade_value,
             Portfolio_update_position(pos, hp, others, order.ticker,
                                       order.quantity, price))

\* _execute_buy without the funds check
Portfolio_execute_buy_Unchecked(c, pos, hp, others, order, price, trade_value) ==
    AfterUpdate(c - trade_value,
        Portfolio_update_position(pos, hp, others, order.ticker,
                                  order.quantity, price))

\* _execute_buy that charges one unit of commission on top of the trade value
Portfolio_execute_buy_Fee(c, pos, hp, others, order, price, trade_value) ==
    IF trade_value + 1 > c
    THEN [ret |-> "False", cash |-> c, positions |-> pos, heap |-> hp]
    ELSE AfterUpdate(c - trade_value - 1,
             Portfolio_update_position(pos, hp, others, order.ticker,
                                       order.quantity, price))

\* lines 52-63
Portfolio_execute_buy(c, pos, hp, others, order, price, trade_value) ==
    IF trade_value > c
    THEN [ret |-> "False", cash |-> c, positions |-> pos, heap |-> hp]
    ELSE AfterUpdate(c - trade_value,
             Portfolio_update_position(pos, hp, others, order.ticker,
                                       order.quantity, price))

\* _execute_sell that declines a sell of more shares than are held
Portfolio_execute_sell_NoShort(c, pos, hp, others, order, price, trade_value) ==
    IF QtyOf(ValueOf(pos, hp), order.ticker) < order.quantity
    THEN [ret |-> "False", cash |-> c, positions |-> pos, heap |-> hp]
    ELSE AfterUpdate(c + trade_value,
             Portfolio_update_position(pos, hp, others, order.ticker,
                                       0 - order.quantity, price))

\* _execute_sell that takes the proceeds from the cash
Portfolio_execute_sell_Debit(c, pos, hp, others, order, price, trade_value) ==
    AfterUpdate(c - trade_value,
        Portfolio_update_position(pos, hp, others, order.ticker,
                                  0 - order.quantity, price))

\* lines 65-77
Portfolio_execute_sell(c, pos, hp, others, order, price, trade_value) ==
    AfterUpdate(c + trade_value,
        Portfolio_update_position(pos, hp, others, order.ticker,
                                  0 - order.quantity, price))

\* execute_order that rejects only a negative price
Portfolio_execute_order_ZeroAccepted(c, pos, hp, others, order, execution_price) ==
    IF execution_price < 0
    THEN [ret |-> "ValueError", cash |-> c, positions |-> pos, heap |-> hp]
    ELSE LET trade_value == order.quantity * execution_price
         IN  IF is_buy(order)
             THEN Portfolio_execute_buy(c, pos, hp, others, order,
                                        execution_price, trade_value)
             ELSE Portfolio_execute_sell(c, pos, hp, others, order,
                                         execution_price, trade_value)

\* lines 31-50
Portfolio_execute_order(c, pos, hp, others, order, execution_price) ==
    IF execution_price <= 0
    THEN [ret |-> "ValueError", cash |-> c, positions |-> pos, heap |-> hp]
    ELSE LET trade_value == order.quantity * execution_price
         IN  IF is_buy(order)
             THEN Portfolio_execute_buy(c, pos, hp, others, order,
                                        execution_price, trade_value)
             ELSE Portfolio_execute_sell(c, pos, hp, others, order,
                                         execution_price, trade_value)

\* get_position(ticker): the stored object itself, NoRef for None
Portfolio_get_position(pos, ticker) == pos[ticker]

\* get_positions(): self._positions.copy(), a new dict holding the same objects
Portfolio_get_positions(pos) == [t \in Tickers |-> pos[t]]

----------------------------------------------------------------------------
\* strategy.py

\* Strategy.update_position(position): position is the object at ref
Strategy_update_position(sp, hp, ref) ==
    IF is_flat(hp[ref])
    THEN [sp EXCEPT ![hp[ref].ticker] = NoRef]
    ELSE [sp EXCEPT ![hp[ref].ticker] = ref]

\* Strategy.positions / Strategy.get_position
Strategy_get_position(sp, ticker) == sp[ticker]

----------------------------------------------------------------------------
\* engine.py

Timestamps == 1..MaxBars

\* Bar(timestamp, close, ticker): __post_init__ relates high and low to the
\* other prices and puts no condition on the sign of close
Bars == [ticker : Tickers, close : 0..MaxPrice, timestamp : Timestamps]

SeqsUpTo(S, n) == UNION {[1..m -> S] : m \in 0..n}

\* data sorted by timestamp, as a loader yields it: bar i carries timestamp i
ChronologicalData ==
    {d \in SeqsUpTo(Bars, MaxBars) : \A i \in 1..Len(d) : d[i].timestamp = i}

\* the scan from the front, which keeps the first close of a ticker
RECURSIVE FirstPricesScan(_, _, _)
FirstPricesScan(d, i, final_prices) ==
    IF i > Len(d) THEN final_prices
    ELSE IF d[i].ticker \in DOMAIN final_prices
         THEN FirstPricesScan(d, i + 1, final_prices)
         ELSE FirstPricesScan(d, i + 1,
                  final_prices @@ (d[i].ticker :> d[i].close))

Engine_get_final_prices_Forward(d) == FirstPricesScan(d, 1, <<>>)

\* lines 117-126: scan the bars in reverse, keep the first close per ticker
RECURSIVE FinalPricesScan(_, _, _)
FinalPricesScan(d, i, final_prices) ==
    IF i = 0 THEN final_prices
    ELSE IF d[i].ticker \in DOMAIN final_prices
         THEN FinalPricesScan(d, i - 1, final_prices)
         ELSE FinalPricesScan(d, i - 1,
                  final_prices @@ (d[i].ticker :> d[i].close))

Engine_get_final_prices(d) == FinalPricesScan(d, Len(d), <<>>)

\* the loop that values a short position like a long one
RECURSIVE SumPositionValues_Unsigned(_, _, _, _)
SumPositionValues_Unsigned(todo, pos, hp, current_prices) ==
    IF todo = {} THEN 0
    ELSE LET t == CHOOSE x \in todo : TRUE
             v == IF pos[t] # NoRef /\ t \in DOMAIN current_prices
                  THEN Abs(hp[pos[t]].quantity) * current_prices[t]
                  ELSE 0
         IN  v + SumPositionValues_Unsigned(todo \ {t}, pos, hp, current_prices)

\* portfolio.py lines 124-141
RECURSIVE SumPositionValues(_, _, _, _)
SumPositionValues(todo, pos, hp, current_prices) ==
    IF todo = {} THEN 0
    ELSE LET t == CHOOSE x \in todo : TRUE
             v == IF pos[t] # NoRef /\ t \in DOMAIN current_prices
                  THEN hp[pos[t]].quantity * current_prices[t]
                  ELSE 0
         IN  v + SumPositionValues(todo \ {t}, pos, hp, current_prices)

Portfolio_calculate_portfolio_value(c, pos, hp, current_prices) ==
    c + SumPositionValues(Tickers, pos, hp, current_prices)

\* the push that tells the strategy nothing when the position was closed
Engine_push_position_OpenOnly(sp, pos, hp, others, ticker) ==
    LET updated_position == Portfolio_get_position(pos, ticker)
    IN  IF updated_position # NoRef
        THEN [spos |-> Strategy_update_position(sp, hp, updated_position),
              heap |-> hp]
        ELSE [spos |-> sp, heap |-> hp]

\* lines 93-101: after a successful execution the strategy is told the
\* position of the order's ticker, or a new flat Position when it is closed
Engine_push_position(sp, pos, hp, others, ticker) ==
    LET updated_position == Portfolio_get_position(pos, ticker)
    IN  IF updated_position # NoRef
        THEN [spos |-> Strategy_update_position(sp, hp, updated_position),
              heap |-> hp]
        ELSE LET closed_position == NewRef(others \cup RefsOf(pos) \cup RefsOf(sp))
                 hp2 == [hp EXCEPT ![closed_position] =
                                      Position(ticker, 0, RatOfInt(0))]
             IN  [spos |-> Strategy_update_position(sp, hp2, closed_position),
                  heap |-> hp2]

\* an engine that keeps the Portfolio of its earlier run
Engine_new_portfolio_Reused(ic, prior) ==
    IF prior.initial_cash = 0
    THEN [cash |-> ic, initial_cash |-> ic, positions |-> EmptyDict]
    ELSE prior

\* line 75, portfolio.py lines 17-29: portfolio = Portfolio(self.initial_cash),
\* whatever Portfolio (prior) an earlier run of the engine built
Engine_new_portfolio(ic, prior) ==
    [cash |-> ic, initial_cash |-> ic, positions |-> EmptyDict]

\* a loop over the bars sorted by timestamp, bars of one timestamp in input
\* order
Engine_bar_Sorted(d, i) ==
    LET before(a, b) == \/ d[a].timestamp < d[b].timestamp
                        \/ d[a].timestamp = d[b].timestamp /\ a < b
        j == CHOOSE h \in 1..Len(d) :
                 Cardinality({a \in 1..Len(d) : before(a, h)}) = i - 1
    IN  d[j]

\* line 82, for bar in data: the bar of iteration i
Engine_bar(d, i) == d[i]

\* an order that carries a limit price is executed at that price
Engine_fill_price_Limit(order, bar) ==
    IF order.price # NoPrice THEN order.price ELSE bar.close

\* line 89: the price an order of this bar is executed at
Engine_fill_price(order, bar) == bar.close

\* the counters when every order that did not raise counts as executed
Engine_count_Attempts(executed, success) == executed + 1

\* lines 88-90: executed_orders after an order for which execute_order
\* returned success
Engine_count(executed, success) ==
    IF success THEN executed + 1 ELSE executed

\* the Results dataclass, lines 13-26
Results(ic, fc, fpv, tot, exe, sd, ed) ==
    [initial_cash |-> ic, final_cash |-> fc, final_portfolio_value |-> fpv,
     total_orders |-> tot, executed_orders |-> exe,
     start_date |-> sd, end_date |-> ed]

\* total_return as final_portfolio_value / initial_cash
Results_total_return_Ratio(r) ==
    Rat(r.final_portfolio_value[1],
        r.initial_cash * r.final_portfolio_value[2])

\* lines 28-31: (final_portfolio_value - initial_cash) / initial_cash, for a
\* final_portfolio_value given as a fraction
Results_total_return(r) ==
    Rat(r.final_portfolio_value[1] - r.initial_cash * r.final_portfolio_value[2],
        r.initial_cash * r.final_portfolio_value[2])

\* execution_rate that is 1 when there was no order to execute
Results_execution_rate_EmptyIsOne(r) ==
    IF r.total_orders > 0 THEN Rat(r.executed_orders, r.total_orders)
                          ELSE RatOfInt(1)

\* lines 33-36
Results_execution_rate(r) ==
    IF r.total_orders > 0 THEN Rat(r.executed_orders, r.total_orders)
                          ELSE RatOfInt(0)

----------------------------------------------------------------------------
\* statistical_testing.py

\* transaction_cost_pct of a TransactionCostEngine: the default 0.05, and 0
\* (__init__ puts no condition on it)
DefaultCostPct == <<1, 20>>
CostPcts == {DefaultCostPct, RatOfInt(0)}

\* the adjustment that charges costs on the size of total_invested
TransactionCostEngine_run_AbsInvested(r, ic, pct) ==
    LET total_invested == Abs(ic - r.final_cash)
        transaction_costs == Rat(total_invested * pct[1], pct[2])
        adjusted_portfolio_value ==
            Rat(r.final_portfolio_value[1] * transaction_costs[2]
                  - transaction_costs[1] * r.final_portfolio_value[2],
                r.final_portfolio_value[2] * transaction_costs[2])
    IN  Results(r.initial_cash, r.final_cash, adjusted_portfolio_value,
                r.total_orders, r.executed_orders, r.start_date, r.end_date)

\* lines 67-83: what TransactionCostEngine.run makes of the Results that
\* super().run returned (r), ic and pct being the engine's fields
TransactionCostEngine_run(r, ic, pct) ==
    LET total_invested == ic - r.final_cash
        transaction_costs == Rat(total_invested * pct[1], pct[2])
        adjusted_portfolio_value ==
            Rat(r.final_portfolio_value[1] * transaction_costs[2]
                  - transaction_costs[1] * r.final_portfolio_value[2],
                r.final_portfolio_value[2] * transaction_costs[2])
    IN  Results(r.initial_cash, r.final_cash, adjusted_portfolio_value,
                r.total_orders, r.executed_orders, r.start_date, r.end_date)

\* the files of daily bars the downloader returns paths of
Files == {"day1.csv", "day2.csv"}

----------------------------------------------------------------------------
\* statistical_testing.py, StockSelector

\* StockSelector(min_price = MinPrice, min_volume = MinVolume): the minima
\* are arguments of the constructor
MinPrice == 2
MinVolume == 2

\* tickers of a file: three symbols, one with a digit, one of six letters
SelectorTickers == {"A", "B", "C", "X1", "TOOLNG"}
isalpha(ticker) == ticker # "X1"
len(ticker) == CASE ticker = "TOOLNG" -> 6
                 [] ticker = "X1" -> 2
                 [] OTHER -> 1

\* close and volume of a row: above both minima with a smaller and a larger
\* product, below the minimum price, below the minimum volume
RowValues == {<<2, 2>>, <<3, 2>>, <<1, 2>>, <<3, 1>>}

\* the bars DataLoader.from_polygon_csv returns for a file of one day: one
\* row per ticker
AllRows == {[ticker |-> t, close |-> v[1], volume |-> v[2]] :
               t \in SelectorTickers, v \in RowValues}
SelectorFiles ==
    {f \in SeqsUpTo(AllRows, MaxRows) :
        /\ \A i, j \in 1..Len(f) : i # j => f[i].ticker # f[j].ticker
        /\ \A i \in 1..Len(f) :
              (~isalpha(f[i].ticker) \/ len(f[i].ticker) > 5)
              => f[i].close = 3 /\ f[i].volume = 2}

\* the random module: the state of its generator is a number below
\* RngModulus; seed(a) sets it from a, and every draw advances it
RngModulus == 5
DefaultSeed == 42
Seeds == {DefaultSeed, 1}
random_seed(a) == a % RngModulus
RngNext(g) == (3 * g + 1) % RngModulus

\* random.sample(population, k) from generator state g, as CPython draws
\* it: k times, an index below the number of elements left is drawn, the
\* element there is taken and the last element left is moved to its place
RECURSIVE random_sample(_, _, _)
random_sample(population, sample_size, g) ==
    IF sample_size = 0
    THEN [result |-> <<>>, rng |-> g]
    ELSE LET n == Len(population)
             j == (g % n) + 1
             left == [i \in 1..(n - 1) |->
                         IF i = j THEN population[n] ELSE population[i]]
             more == random_sample(left, sample_size - 1, RngNext(g))
         IN  [result |-> <<population[j]>> \o more.result, rng |-> more.rng]

\* lines 115-127: the rows that pass the filters, in file order
RECURSIVE Selector_eligible(_)
Selector_eligible(rows) ==
    IF rows = <<>> THEN <<>>
    ELSE LET bar == Head(rows)
         IN  IF /\ bar.close >= MinPrice
                /\ bar.volume >= MinVolume
                /\ isalpha(bar.ticker)
                /\ len(bar.ticker) <= 5
             THEN <<[ticker |-> bar.ticker, price |-> bar.close,
                     volume |-> bar.volume,
                     market_cap_proxy |-> bar.close * bar.volume]>>
                  \o Selector_eligible(Tail(rows))
             ELSE Selector_eligible(Tail(rows))

\* line 130: list.sort(key = market_cap_proxy, reverse = True), which keeps
\* rows of equal key in their order
SortByProxy(stocks) ==
    LET n == Len(stocks)
        before(a, b) ==
            \/ stocks[a].market_cap_proxy > stocks[b].market_cap_proxy
            \/ /\ stocks[a].market_cap_proxy = stocks[b].market_cap_proxy
               /\ a < b
        at(i) == CHOOSE h \in 1..n :
                     Cardinality({a \in 1..n : before(a, h)}) = i - 1
    IN  [i \in 1..n |-> stocks[at(i)]]

Min(a, b) == IF a < b THEN a ELSE b

\* select_stocks that draws from the generator as it finds it
Selector_select_stocks_Unseeded(rows, n_stocks, seed, g) ==
    LET eligible_stocks == SortByProxy(Selector_eligible(rows))
        top_candidates ==
            SubSeq(eligible_stocks, 1,
                   Min(MaxCandidates, Len(eligible_stocks)))
        selected == random_sample(top_candidates,
                                  Min(n_stocks, Len(top_candidates)), g)
    IN  [tickers |-> [i \in 1..Len(selected.result) |->
                         selected.result[i].ticker],
         rng |-> selected.rng]

\* lines 100-140, select_stocks on a file with these rows and n_stocks >= 0,
\* the generator being in state g: the tickers returned and the generator's
\* state afterwards
Selector_select_stocks(rows, n_stocks, seed, g) ==
    LET eligible_stocks == SortByProxy(Selector_eligible(rows))
        top_candidates ==
            SubSeq(eligible_stocks, 1,
                   Min(MaxCandidates, Len(eligible_stocks)))
        selected == random_sample(top_candidates,
                                  Min(n_stocks, Len(top_candidates)),
                                  random_seed(seed))
    IN  [tickers |-> [i \in 1..Len(selected.result) |->
                         selected.result[i].ticker],
         rng |-> selected.rng]

----------------------------------------------------------------------------
\* statistical_testing.py, StatisticalTester

\* the instruments of the start file
Universe == {"A", "B", "C"}

\* what select_stocks returns: distinct tickers, at most MaxStocks
SelectedLists ==
    {sel \in SeqsUpTo(Universe, MaxStocks) :
        \A i, j \in 1..Len(sel) : i # j => sel[i] # sel[j]}

\* total_return of a backtest, in whole units
ReturnPcts == {0 - 1, 0, 1}
BenchmarkReturns == {0 - 1, 0}

\* what happens to one instrument inside the try block, lines 201-226:
\* _get_stock_data_for_period raises, returns fewer than 2 bars, the
\* strategy's constructor raises, engine.run raises, _calculate_stat_result
\* raises, or a StatResult is appended
Failures == {"load_error", "short_data", "strategy_error", "run_error",
             "result_error"}
Outcomes == Failures \cup {"ok"}

\* lines 240-243 and 263-270: if file not in self._cached_data, parse it and
\* store the bars; inv is the invocation that does so
Tester_load(cache, file, inv) ==
    IF cache[file] = 0
    THEN [cache |-> [cache EXCEPT ![file] = inv], parsed |-> TRUE]
    ELSE [cache |-> cache, parsed |-> FALSE]

\* lines 278-309: the StatResult of a backtest with total_return r
StatResult(ticker, r, benchmark) ==
    [ticker |-> ticker, return_pct |-> r,
     sharpe_ratio |-> IF r # 0 THEN r ELSE 0,
     beat_benchmark |-> r > benchmark]

\* a loop that an exception in one instrument ends
Tester_process_instrument_StopOnError(res, ticker, outcome, r, benchmark) ==
    IF outcome = "ok"
    THEN [results |-> Append(res, StatResult(ticker, r, benchmark)),
          continue |-> TRUE]
    ELSE [results |-> res, continue |-> outcome = "short_data"]

\* lines 200-226, one iteration: the list results afterwards, and whether
\* the loop goes on to the next instrument
Tester_process_instrument(res, ticker, outcome, r, benchmark) ==
    IF outcome = "ok"
    THEN [results |-> Append(res, StatResult(ticker, r, benchmark)),
          continue |-> TRUE]
    ELSE [results |-> res, continue |-> TRUE]

\* the sum of a list of integers
RECURSIVE SumSeq(_)
SumSeq(xs) ==
    IF xs = <<>> THEN 0 ELSE Head(xs) + SumSeq(Tail(xs))

\* scipy.stats.t.ppf(0.975, df) squared, to two decimals
TCriticalSquared(df) ==
    CASE df = 1 -> <<16145, 100>>
      [] df = 2 -> <<1851, 100>>
      [] df = 3 -> <<1013, 100>>
      [] df = 4 -> <<771, 100>>
      [] OTHER -> <<661, 100>>

\* the StatTestSummary of the empty list, line 318
EmptySummary(benchmark) ==
    [n_stocks |-> 0, mean_return |-> RatOfInt(0), var_return |-> RatOfInt(0),
     win_rate |-> RatOfInt(0), mean_sharpe |-> RatOfInt(0),
     benchmark_return |-> benchmark,
     t_statistic |-> [sign |-> 0, square |-> RatOfInt(0)],
     p_value |-> "1", is_significant |-> FALSE,
     confidence_interval |-> [center |-> RatOfInt(0),
                              margin_square |-> RatOfInt(0)]]

\* lines 320-358: the summary of a non-empty list.
\* The fields of a StatTestSummary that are roots or values of the t
\* distribution are kept by what determines them: var_return is
\* std_return squared, t_statistic is its sign and its square, the
\* confidence interval is its center and its margin squared, and p_value is
\* "1", "<0.05" or ">=0.05"
SummaryOf(res, benchmark) ==
    LET n == Len(res)
        returns == [i \in 1..n |-> res[i].return_pct]
        sharpes == [i \in 1..n |-> res[i].sharpe_ratio]
        wins == [i \in 1..n |-> IF res[i].beat_benchmark THEN 1 ELSE 0]
        total == SumSeq(returns)
        squares == SumSeq([i \in 1..n |-> returns[i] * returns[i]])
        mean_return == Rat(total, n)
        \* np.std(returns, ddof=1) squared, 0 for a single return
        var_return == IF n > 1
                      THEN Rat(n * squares - total * total, n * (n - 1))
                      ELSE RatOfInt(0)
        diff == Rat(total - benchmark * n, n)
        base == [n_stocks |-> n, mean_return |-> mean_return,
                 var_return |-> var_return,
                 win_rate |-> Rat(SumSeq(wins), n),
                 mean_sharpe |-> Rat(SumSeq(sharpes), n),
                 benchmark_return |-> benchmark]
    IN  IF n > 1 /\ var_return[1] > 0
        THEN LET t_square == Rat(diff[1] * diff[1] * n * var_return[2],
                                 diff[2] * diff[2] * var_return[1])
                 critical == TCriticalSquared(n - 1)
                 significant == t_square[1] * critical[2]
                                  > critical[1] * t_square[2]
             IN  base @@
                 [t_statistic |->
                      [sign |-> IF diff[1] > 0 THEN 1
                                ELSE IF diff[1] < 0 THEN 0 - 1 ELSE 0,
                       square |-> t_square],
                  p_value |-> IF significant THEN "<0.05" ELSE ">=0.05",
                  is_significant |-> significant,
                  confidence_interval |->
                      [center |-> mean_return,
                       margin_square |->
                           Rat(critical[1] * var_return[1],
                               critical[2] * var_return[2] * n)]]
        ELSE base @@
             [t_statistic |-> [sign |-> 0, square |-> RatOfInt(0)],
              p_value |-> "1", is_significant |-> FALSE,
              confidence_interval |-> [center |-> mean_return,
                                       margin_square |-> RatOfInt(0)]]

\* _calculate_summary_stats whose degenerate interval is (0, 0), as for the
\* empty list
Tester_calculate_summary_stats_ZeroInterval(res, benchmark) ==
    IF res = <<>>
    THEN EmptySummary(benchmark)
    ELSE LET s == SummaryOf(res, benchmark)
         IN  IF s.p_value = "1"
             THEN [s EXCEPT !.confidence_interval.center = RatOfInt(0)]
             ELSE s

\* lines 311-358, _calculate_summary_stats
Tester_calculate_summary_stats(res, benchmark) ==
    IF res = <<>>
    THEN EmptySummary(benchmark)
    ELSE SummaryOf(res, benchmark)

----------------------------------------------------------------------------
\* strategies/buy_and_hold.py

\* on_data that does not record the ticker it bought
BuyAndHold_on_data_Forgetful(bought, investment, bar) ==
    IF bar.ticker \notin bought
    THEN IF bar.close = 0
         THEN [ret |-> "ZeroDivisionError", orders |-> <<>>, bought |-> bought]
         ELSE LET quantity == investment \div bar.close
              IN  IF quantity > 0
                  THEN [ret |-> "ok",
                        orders |-> <<[side |-> "buy", ticker |-> bar.ticker,
                                      quantity |-> quantity,
                                      price |-> NoPrice]>>,
                        bought |-> bought]
                  ELSE [ret |-> "ok", orders |-> <<>>, bought |-> bought]
    ELSE [ret |-> "ok", orders |-> <<>>, bought |-> bought]

\* lines 35-55, on_data(bar) with self._bought_tickers = bought: the orders
\* returned and the set afterwards; int(investment / close) truncates, and
\* the division raises for close = 0
BuyAndHold_on_data(bought, investment, bar) ==
    IF bar.ticker \notin bought
    THEN IF bar.close = 0
         THEN [ret |-> "ZeroDivisionError", orders |-> <<>>, bought |-> bought]
         ELSE LET quantity == investment \div bar.close
              IN  IF quantity > 0
                  THEN [ret |-> "ok",
                        orders |-> <<[side |-> "buy", ticker |-> bar.ticker,
                                      quantity |-> quantity,
                                      price |-> NoPrice]>>,
                        bought |-> bought \cup {bar.ticker}]
                  ELSE [ret |-> "ok", orders |-> <<>>, bought |-> bought]
    ELSE [ret |-> "ok", orders |-> <<>>, bought |-> bought]

----------------------------------------------------------------------------
\* History
\* the last call: its arguments (order and price, or prices), what it
\* returned (ret, or value) and the Portfolio's fields before it (cash, pos)
NoCall == [op |-> "none", order |-> NoOrder, price |-> 0, ret |-> "-",
           cash |-> 0, pos |-> ValueOf(EmptyDict, [r \in Refs |-> FreeCell]),
           prev |-> {}, prices |-> <<>>, value |-> 0]

\* returned_true: the execute_order calls that returned True
\* log: the calls in the order they were made
NoCalls == [on_data |-> 0, execute_order |-> 0, returned_true |-> 0,
            update_position |-> 0, log |-> <<>>]

\* the entries of the log
OnDataCall(bar) == [op |-> "on_data", bar |-> bar]
ExecuteOrderCall(order, price, ret, c) ==
    [op |-> "execute_order", order |-> order, price |-> price, ret |-> ret,
     cash |-> c]
UpdatePositionCall(ticker) == [op |-> "update_position", ticker |-> ticker]

\* the number of orders in the lists on_data returned
RECURSIVE NumOrders(_)
NumOrders(sc) ==
    IF sc = <<>> THEN 0 ELSE Len(Head(sc)) + NumOrders(Tail(sc))
Live(pos, sn, sp) == RefsOf(pos) \cup RefsOf(sn) \cup RefsOf(sp)

----------------------------------------------------------------------------
\* The parts of the state a specification does not use

\* no BuyAndHoldStrategy
NoStrategy ==
    /\ investment_per_ticker = 0
    /\ bought_tickers = {}

\* no Portfolio, no caller, no Engine
NoBacktest ==
    /\ initial_cash = 0
    /\ cash = 0
    /\ positions = EmptyDict
    /\ heap = [r \in Refs |-> FreeCell]
    /\ snap = EmptyDict
    /\ snapRet = {}
    /\ ncalls = 0
    /\ last = NoCall
    /\ engine_cash = 0
    /\ data = <<>>
    /\ idx = 0
    /\ orders = <<>>
    /\ k = 0
    /\ spos = EmptyDict
    /\ total_orders = 0
    /\ executed_orders = 0
    /\ results = {}
    /\ engine_class = "-"
    /\ transaction_cost_pct = RatOfInt(0)
    /\ base_results = {}
    /\ script = <<>>
    /\ calls = NoCalls
    /\ first = {}

\* no StatisticalTester, or one on which run_cross_sectional_test has not
\* been called: it has no _cached_data
NoTester ==
    /\ cached_data = [f \in Files |-> 0]
    /\ start_file = "-"
    /\ end_file = "-"
    /\ selected_tickers = <<>>
    /\ benchmark_return = 0
    /\ ti = 0
    /\ stat_results = <<>>
    /\ summary = {}
    /\ invocation = 0
    /\ parses = [f \in Files |-> 0]
    /\ outcomes = <<>>
    /\ cache_reads = {}
    /\ cache_stores = [f \in Files |-> 0]

\* no StockSelector call
NoSelector ==
    /\ file_bars = <<>>
    /\ rng = 0
    /\ selections = <<>>

----------------------------------------------------------------------------
\* A client of one Portfolio

\* Portfolio(initial_cash) with initial_cash > 0; no Engine
Init ==
    /\ initial_cash = InitialCash
    /\ cash = initial_cash
    /\ positions = EmptyDict
    /\ heap = [r \in Refs |-> FreeCell]
    /\ snap = EmptyDict
    /\ snapRet = {}
    /\ ncalls = 0
    /\ last = NoCall
    /\ pc = "client"
    /\ engine_cash = 0
    /\ data = <<>>
    /\ idx = 0
    /\ orders = <<>>
    /\ k = 0
    /\ spos = EmptyDict
    /\ total_orders = 0
    /\ executed_orders = 0
    /\ results = {}
    /\ engine_class = "-"
    /\ transaction_cost_pct = RatOfInt(0)
    /\ base_results = {}
    /\ script = <<>>
    /\ calls = NoCalls
    /\ first = {}
    /\ NoStrategy /\ NoTester /\ NoSelector

\* portfolio.execute_order(order, execution_price)
ExecuteOrder(order, execution_price) ==
    LET r == Portfolio_execute_order(cash, positions, heap, RefsOf(snap),
                                     order, execution_price)
    IN  /\ pc = "client"
        /\ ncalls < MaxCalls
        /\ ncalls' = ncalls + 1
        /\ cash' = r.cash
        /\ positions' = r.positions
        /\ heap' = Collect(r.heap, Live(r.positions, snap, spos))
        /\ snapRet' = {}
        /\ last' = [NoCall EXCEPT !.op = "execute_order", !.order = order,
                                  !.price = execution_price, !.ret = r.ret,
                                  !.cash = cash,
                                  !.pos = ValueOf(positions, heap)]
        /\ UNCHANGED <<initial_cash, snap>>
        /\ UNCHANGED engineVars
    /\ UNCHANGED <<strategyVars, testerVars, selectorVars>>

\* the caller keeps d = portfolio.get_positions(), dropping an earlier dict
GetPositions ==
    /\ pc = "client"
    /\ ncalls < MaxCalls
    /\ ncalls' = ncalls + 1
    /\ snap' = Portfolio_get_positions(positions)
    /\ heap' = Collect(heap, Live(positions, snap', spos))
    /\ snapRet' = {ValueOf(snap', heap')}
    /\ last' = [NoCall EXCEPT !.op = "get_positions", !.cash = cash,
                              !.pos = ValueOf(positions, heap),
                              !.prev = snapRet]
    /\ UNCHANGED <<cash, initial_cash, positions>>
    /\ UNCHANGED engineVars
    /\ UNCHANGED <<strategyVars, testerVars, selectorVars>>

\* what a caller writes into objects it holds
CallerQuantities == {0, MaxQty}
CallerAvgCosts == {RatOfInt(0 - 1), RatOfInt(MaxPrice)}

\* d[t] = Position(t, q, a): insert or replace an entry of the returned dict
SnapSet(t, q, a) ==
    /\ pc = "client"
    /\ ncalls < MaxCalls
    /\ ncalls' = ncalls + 1
    /\ ~PositionRaises(a)
    /\ LET r == NewRef(Live(positions, snap, spos))
       IN  /\ snap' = [snap EXCEPT ![t] = r]
           /\ heap' = Collect([heap EXCEPT ![r] = Position(t, q, a)],
                              Live(positions, snap', spos))
    /\ last' = [NoCall EXCEPT !.op = "snap_set", !.cash = cash,
                              !.pos = ValueOf(positions, heap)]
    /\ UNCHANGED <<cash, initial_cash, positions, snapRet>>
    /\ UNCHANGED engineVars
    /\ UNCHANGED <<strategyVars, testerVars, selectorVars>>

\* del d[t]
SnapDelete(t) ==
    /\ pc = "client"
    /\ ncalls < MaxCalls
    /\ ncalls' = ncalls + 1
    /\ snap[t] # NoRef
    /\ snap' = [snap EXCEPT ![t] = NoRef]
    /\ heap' = Collect(heap, Live(positions, snap', spos))
    /\ last' = [NoCall EXCEPT !.op = "snap_delete", !.cash = cash,
                              !.pos = ValueOf(positions, heap)]
    /\ UNCHANGED <<cash, initial_cash, positions, snapRet>>
    /\ UNCHANGED engineVars
    /\ UNCHANGED <<strategyVars, testerVars, selectorVars>>

\* d[t].quantity = q; d[t].avg_cost = a: attribute assignment on the
\* dataclass, which runs no validation
SnapModify(t, q, a) ==
    /\ pc = "client"
    /\ ncalls < MaxCalls
    /\ ncalls' = ncalls + 1
    /\ snap[t] # NoRef
    /\ heap' = [heap EXCEPT ![snap[t]].quantity = q, ![snap[t]].avg_cost = a]
    /\ last' = [NoCall EXCEPT !.op = "snap_modify", !.cash = cash,
                              !.pos = ValueOf(positions, heap)]
    /\ UNCHANGED <<cash, initial_cash, positions, snap, snapRet>>
    /\ UNCHANGED engineVars
    /\ UNCHANGED <<strategyVars, testerVars, selectorVars>>

\* the price maps a caller values the portfolio with: any tickers, any prices
PriceMaps == UNION {[D -> 0..MaxPrice] : D \in SUBSET Tickers}

\* portfolio.calculate_portfolio_value(current_prices)
CalculateValue(current_prices) ==
    /\ pc = "client"
    /\ ncalls < MaxCalls
    /\ ncalls' = ncalls + 1
    /\ last' = [NoCall EXCEPT
                  !.op = "calculate_portfolio_value",
                  !.prices = current_prices,
                  !.value = Portfolio_calculate_portfolio_value(cash,
                                positions, heap, current_prices),
                  !.cash = cash, !.pos = ValueOf(positions, heap)]
    /\ UNCHANGED <<cash, initial_cash, positions, heap, snap, snapRet>>
    /\ UNCHANGED engineVars
    /\ UNCHANGED <<strategyVars, testerVars, selectorVars>>

\* a client that only trades
Next ==
    \E order \in Orders, p \in ExecPrices : ExecuteOrder(order, p)

Spec == Init /\ [][Next]_vars

\* a client that trades, takes get_positions() dicts and writes to them
CallerNext ==
    \/ \E order \in Orders, p \in ExecPrices : ExecuteOrder(order, p)
    \/ GetPositions
    \/ \E t \in Tickers, q \in CallerQuantities, a \in CallerAvgCosts :
           SnapSet(t, q, a)
    \/ \E t \in Tickers : SnapDelete(t)
    \/ \E t \in Tickers, q \in CallerQuantities, a \in CallerAvgCosts :
           SnapModify(t, q, a)

CallerSpec == Init /\ [][CallerNext]_vars

\* a client that trades and values the portfolio
ValueNext ==
    \/ \E order \in Orders, p \in ExecPrices : ExecuteOrder(order, p)
    \/ \E current_prices \in PriceMaps : CalculateValue(current_prices)

ValueSpec == Init /\ [][ValueNext]_vars

----------------------------------------------------------------------------
\* Engine.run(strategy, data), one step per loop iteration

\* Engine(initial_cash) with initial_cash > 0 and a Strategy whose position
\* view is empty; run has not been called
EngineInit ==
    /\ engine_cash = InitialCash
    /\ engine_class = "Engine"
    /\ transaction_cost_pct = RatOfInt(0)
    /\ pc = "start"
    /\ initial_cash = 0
    /\ cash = 0
    /\ positions = EmptyDict
    /\ heap = [r \in Refs |-> FreeCell]
    /\ snap = EmptyDict
    /\ snapRet = {}
    /\ ncalls = 0
    /\ last = NoCall
    /\ data = <<>>
    /\ idx = 0
    /\ orders = <<>>
    /\ k = 0
    /\ spos = EmptyDict
    /\ total_orders = 0
    /\ executed_orders = 0
    /\ results = {}
    /\ base_results = {}
    /\ script = <<>>
    /\ calls = NoCalls
    /\ first = {}
    /\ NoStrategy /\ NoTester /\ NoSelector

\* an Engine(initial_cash) or a
\* TransactionCostEngine(initial_cash, transaction_cost_pct)
AnyEngineInit ==
    /\ engine_cash = InitialCash
    /\ \/ engine_class = "Engine" /\ transaction_cost_pct = RatOfInt(0)
       \/ engine_class = "TransactionCostEngine"
          /\ transaction_cost_pct \in CostPcts
    /\ pc = "start"
    /\ initial_cash = 0
    /\ cash = 0
    /\ positions = EmptyDict
    /\ heap = [r \in Refs |-> FreeCell]
    /\ snap = EmptyDict
    /\ snapRet = {}
    /\ ncalls = 0
    /\ last = NoCall
    /\ data = <<>>
    /\ idx = 0
    /\ orders = <<>>
    /\ k = 0
    /\ spos = EmptyDict
    /\ total_orders = 0
    /\ executed_orders = 0
    /\ results = {}
    /\ base_results = {}
    /\ script = <<>>
    /\ calls = NoCalls
    /\ first = {}
    /\ NoStrategy /\ NoTester /\ NoSelector

\* run that builds its Portfolio before it looks at the data
Run_PortfolioFirst(d) ==
    /\ pc = "start"
    /\ data' = d
    /\ initial_cash' = engine_cash
    /\ cash' = engine_cash
    /\ positions' = EmptyDict
    /\ IF d = <<>>
       THEN pc' = "raised" /\ UNCHANGED idx
       ELSE pc' = "bar" /\ idx' = 1
    /\ total_orders' = 0
    /\ executed_orders' = 0
    /\ last' = [NoCall EXCEPT !.op = "run"]
    /\ UNCHANGED <<heap, engine_cash, orders, k, spos, results, engine_class,
                   transaction_cost_pct, base_results, script, calls, first>>
    /\ UNCHANGED clientVars
    /\ UNCHANGED <<strategyVars, testerVars, selectorVars>>

\* engine.py lines 71-80 (statistical_testing.py lines 61-65 make the same
\* test before super().run): run is entered with data d; empty data raises,
\* otherwise a Portfolio is built and the counters start at 0
Run(d) ==
    /\ pc = "start"
    /\ data' = d
    /\ IF d = <<>>
       THEN /\ pc' = "raised"
            /\ UNCHANGED <<cash, initial_cash, positions, idx>>
       ELSE LET portfolio == Engine_new_portfolio(engine_cash,
                                 [cash |-> cash, initial_cash |-> initial_cash,
                                  positions |-> positions])
            IN  /\ pc' = "bar"
                /\ initial_cash' = portfolio.initial_cash
                /\ cash' = portfolio.cash
                /\ positions' = portfolio.positions
                /\ idx' = 1
    /\ total_orders' = 0
    /\ executed_orders' = 0
    /\ last' = [NoCall EXCEPT !.op = "run"]
    /\ UNCHANGED <<heap, engine_cash, orders, k, spos, results, engine_class,
                   transaction_cost_pct, base_results, script, calls, first>>
    /\ UNCHANGED clientVars
    /\ UNCHANGED <<strategyVars, testerVars, selectorVars>>

\* where the loops stand after the order at k: the next order of the list,
\* or the next bar
AfterOrder(os, j) ==
    IF j < Len(os)
    THEN [pc |-> "orders", idx |-> idx, orders |-> os, k |-> j + 1]
    ELSE [pc |-> "bar", idx |-> idx + 1, orders |-> <<>>, k |-> 0]

\* lines 82-85: the next bar is given to strategy.on_data, which returns os;
\* the orders of the list are counted
CallOnData(os) ==
    /\ pc = "bar"
    /\ idx <= Len(data)
    /\ NumOrders(script) + Len(os) <= MaxOrders
    /\ script' = Append(script, os)
    /\ total_orders' = total_orders + Len(os)
    /\ calls' = [calls EXCEPT
                   !.on_data = @ + 1,
                   !.log = Append(@, OnDataCall(Engine_bar(data, idx)))]
    /\ LET n == AfterOrder(os, 0)
       IN  /\ pc' = n.pc
           /\ idx' = n.idx
           /\ orders' = n.orders
           /\ k' = n.k
    /\ last' = [NoCall EXCEPT !.op = "on_data", !.cash = cash,
                              !.pos = ValueOf(positions, heap)]
    /\ UNCHANGED <<heap, engine_cash, data, spos, executed_orders, results,
                   engine_class, transaction_cost_pct, base_results, first>>
    /\ UNCHANGED portfolioVars
    /\ UNCHANGED clientVars
    /\ UNCHANGED <<testerVars, selectorVars>>

\* on_data of a strategy that keeps no state besides its position view
OnData(os) ==
    /\ CallOnData(os)
    /\ UNCHANGED strategyVars

\* lines 87-101: one order of the list is executed at the bar's close
ProcessOrder ==
    /\ pc = "orders"
    /\ LET bar == Engine_bar(data, idx)
           order == orders[k]
           price == Engine_fill_price(order, bar)
           r == Portfolio_execute_order(cash, positions, heap,
                    RefsOf(snap) \cup RefsOf(spos), order, price)
           c == Engine_count(executed_orders, r.ret = "True")
           n == AfterOrder(orders, k)
           call == ExecuteOrderCall(order, price, r.ret, cash)
       IN  /\ cash' = r.cash
           /\ positions' = r.positions
           /\ last' = [NoCall EXCEPT !.op = "execute_order", !.order = order,
                                     !.price = price, !.ret = r.ret,
                                     !.cash = cash,
                                     !.pos = ValueOf(positions, heap)]
           /\ IF r.ret = "ValueError"
              THEN \* the exception leaves run
                   /\ pc' = "raised"
                   /\ heap' = Collect(r.heap, Live(r.positions, snap, spos))
                   /\ calls' = [calls EXCEPT !.execute_order = @ + 1,
                                              !.log = Append(@, call)]
                   /\ UNCHANGED <<idx, orders, k, spos, executed_orders>>
              ELSE /\ pc' = n.pc
                   /\ idx' = n.idx
                   /\ orders' = n.orders
                   /\ k' = n.k
                   /\ executed_orders' = c
                   /\ IF r.ret = "True"
                      THEN LET u == Engine_push_position(spos, r.positions,
                                        r.heap, RefsOf(snap), order.ticker)
                           IN  /\ spos' = u.spos
                               /\ heap' = Collect(u.heap,
                                              Live(r.positions, snap, u.spos))
                               /\ calls' = [calls EXCEPT
                                              !.execute_order = @ + 1,
                                              !.returned_true = @ + 1,
                                              !.update_position = @ + 1,
                                              !.log = @ \o <<call,
                                                  UpdatePositionCall(
                                                      order.ticker)>>]
                      ELSE /\ heap' = Collect(r.heap,
                                              Live(r.positions, snap, spos))
                           /\ calls' = [calls EXCEPT !.execute_order = @ + 1,
                                                      !.log = Append(@, call)]
                           /\ UNCHANGED spos
    /\ UNCHANGED <<initial_cash, engine_cash, data, total_orders, results,
                   engine_class, transaction_cost_pct, base_results, script,
                   first>>
    /\ UNCHANGED clientVars
    /\ UNCHANGED <<strategyVars, testerVars, selectorVars>>

\* engine.py lines 103-115: after the last bar the portfolio is valued and
\* Engine.run returns; statistical_testing.py lines 67-83: a
\* TransactionCostEngine then adjusts what super().run returned
Finish ==
    /\ pc = "bar"
    /\ idx > Len(data)
    /\ pc' = "done"
    /\ LET final_prices == Engine_get_final_prices(data)
           final_portfolio_value ==
               Portfolio_calculate_portfolio_value(cash, positions, heap,
                                                   final_prices)
           r == Results(engine_cash, cash, RatOfInt(final_portfolio_value),
                        total_orders, executed_orders,
                        data[1].timestamp, data[Len(data)].timestamp)
       IN  IF engine_class = "TransactionCostEngine"
           THEN /\ base_results' = {r}
                /\ results' = {TransactionCostEngine_run(r, engine_cash,
                                   transaction_cost_pct)}
           ELSE /\ results' = {r}
                /\ UNCHANGED base_results
    /\ last' = [NoCall EXCEPT !.op = "finish", !.cash = cash,
                              !.pos = ValueOf(positions, heap)]
    /\ UNCHANGED <<heap, engine_cash, data, idx, orders, k, spos,
                   total_orders, executed_orders, engine_class,
                   transaction_cost_pct, script, calls, first>>
    /\ UNCHANGED portfolioVars
    /\ UNCHANGED clientVars
    /\ UNCHANGED <<strategyVars, testerVars, selectorVars>>

\* inside on_data, a strategy assigns to the fields of a Position it was
\* given by update_position
StrategyMutate(t, q, a) ==
    /\ pc = "bar"
    /\ idx <= Len(data)
    /\ spos[t] # NoRef
    /\ heap' = [heap EXCEPT ![spos[t]].quantity = q, ![spos[t]].avg_cost = a]
    /\ heap' # heap
    /\ last' = [NoCall EXCEPT !.op = "strategy_mutate", !.cash = cash,
                              !.pos = ValueOf(positions, heap)]
    /\ UNCHANGED engineVars
    /\ UNCHANGED <<strategyVars, testerVars, selectorVars>>
    /\ UNCHANGED portfolioVars
    /\ UNCHANGED clientVars

\* statistical_testing.py lines 196-212: the engine that has returned from a
\* run is given the same data again with a new strategy; the outcome of the
\* first run is kept for comparison
RunAgain ==
    /\ pc = "done"
    /\ first = {}
    /\ first' = {[data |-> data, script |-> script, results |-> results,
                  final |-> ValueOf(positions, heap),
                  engine |-> <<engine_cash, engine_class,
                               transaction_cost_pct>>]}
    /\ LET portfolio == Engine_new_portfolio(engine_cash,
                            [cash |-> cash, initial_cash |-> initial_cash,
                             positions |-> positions])
       IN  /\ initial_cash' = portfolio.initial_cash
           /\ cash' = portfolio.cash
           /\ positions' = portfolio.positions
    /\ spos' = EmptyDict
    /\ heap' = Collect(heap, Live(positions', snap, spos'))
    /\ pc' = "bar"
    /\ idx' = 1
    /\ total_orders' = 0
    /\ executed_orders' = 0
    /\ results' = {}
    /\ base_results' = {}
    /\ script' = <<>>
    /\ calls' = NoCalls
    /\ last' = [NoCall EXCEPT !.op = "run"]
    /\ UNCHANGED <<engine_cash, data, orders, k, engine_class,
                   transaction_cost_pct>>
    /\ UNCHANGED clientVars
    /\ UNCHANGED <<strategyVars, testerVars, selectorVars>>

\* the orders of a list with every choice of price fields
PriceVariants(os) ==
    {[i \in 1..Len(os) |-> [os[i] EXCEPT !.price = ps[i]]] :
        ps \in [1..Len(os) -> {NoPrice} \cup LimitPrices]}

\* on_data of the first run of an engine
FirstOnData(os) ==
    /\ first = {}
    /\ OnData(os)

\* on_data of the second run: the strategy returns what the first run's
\* strategy returned for this bar, with any price fields
ReplayOnData ==
    /\ first # {}
    /\ pc = "bar"
    /\ idx <= Len(data)
    /\ \E f \in first : \E os \in PriceVariants(f.script[idx]) : OnData(os)

\* a strategy that leaves the Positions it is given alone
EngineNext ==
    \/ \E d \in ChronologicalData : Run(d)
    \/ \E os \in SeqsUpTo(Orders, MaxOrders) : OnData(os)
    \/ ProcessOrder
    \/ Finish

EngineSpec == EngineInit /\ [][EngineNext]_vars

\* a strategy that may also write to them
EngineMutNext ==
    \/ \E d \in ChronologicalData : Run(d)
    \/ \E os \in SeqsUpTo(Orders, MaxOrders) : OnData(os)
    \/ ProcessOrder
    \/ Finish
    \/ \E t \in Tickers, q \in CallerQuantities, a \in CallerAvgCosts :
           StrategyMutate(t, q, a)

EngineMutSpec == EngineInit /\ [][EngineMutNext]_vars

\* data in any order of timestamps
DatedNext ==
    \/ \E d \in SeqsUpTo(Bars, MaxBars) : Run(d)
    \/ \E os \in SeqsUpTo(Orders, MaxOrders) : OnData(os)
    \/ ProcessOrder
    \/ Finish

DatedSpec == EngineInit /\ [][DatedNext]_vars

\* a run of an Engine or of a TransactionCostEngine
CostSpec == AnyEngineInit /\ [][EngineNext]_vars

\* two runs of one engine on the same data, the second with a new strategy
\* that returns the same orders up to their price fields
ReplayNext ==
    \/ \E d \in ChronologicalData : Run(d)
    \/ \E os \in SeqsUpTo(Orders, MaxOrders) : FirstOnData(os)
    \/ ReplayOnData
    \/ ProcessOrder
    \/ Finish
    \/ RunAgain

ReplaySpec == AnyEngineInit /\ [][ReplayNext]_vars

----------------------------------------------------------------------------
\* Engine.run with a BuyAndHoldStrategy

Investments == 1..MaxInvestment

\* Engine(initial_cash) and BuyAndHoldStrategy(investment_per_ticker) with
\* investment_per_ticker > 0; run has not been called
BuyHoldInit ==
    /\ engine_cash = InitialCash
    /\ engine_class = "Engine"
    /\ transaction_cost_pct = RatOfInt(0)
    /\ pc = "start"
    /\ initial_cash = 0
    /\ cash = 0
    /\ positions = EmptyDict
    /\ heap = [r \in Refs |-> FreeCell]
    /\ snap = EmptyDict
    /\ snapRet = {}
    /\ ncalls = 0
    /\ last = NoCall
    /\ data = <<>>
    /\ idx = 0
    /\ orders = <<>>
    /\ k = 0
    /\ spos = EmptyDict
    /\ total_orders = 0
    /\ executed_orders = 0
    /\ results = {}
    /\ base_results = {}
    /\ script = <<>>
    /\ calls = NoCalls
    /\ first = {}
    /\ investment_per_ticker \in Investments
    /\ bought_tickers = {}
    /\ NoTester /\ NoSelector

\* engine.py lines 82-85 with buy_and_hold.py lines 35-55: the next bar is
\* given to BuyAndHoldStrategy.on_data; a ZeroDivisionError leaves run
BuyAndHoldOnData ==
    /\ pc = "bar"
    /\ idx <= Len(data)
    /\ LET bar == Engine_bar(data, idx)
           r == BuyAndHold_on_data(bought_tickers, investment_per_ticker, bar)
       IN  IF r.ret = "ok"
           THEN /\ CallOnData(r.orders)
                /\ bought_tickers' = r.bought
                /\ UNCHANGED investment_per_ticker
           ELSE /\ pc' = "raised"
                /\ calls' = [calls EXCEPT
                               !.on_data = @ + 1,
                               !.log = Append(@, OnDataCall(bar))]
                /\ last' = [NoCall EXCEPT !.op = "on_data", !.cash = cash,
                                          !.pos = ValueOf(positions, heap)]
                /\ UNCHANGED <<heap, engine_cash, data, idx, orders, k, spos,
                               total_orders, executed_orders, results,
                               engine_class, transaction_cost_pct,
                               base_results, script, first>>
                /\ UNCHANGED portfolioVars
                /\ UNCHANGED clientVars
                /\ UNCHANGED <<strategyVars, testerVars, selectorVars>>

BuyHoldNext ==
    \/ \E d \in ChronologicalData : Run(d)
    \/ BuyAndHoldOnData
    \/ ProcessOrder
    \/ Finish

BuyHoldSpec == BuyHoldInit /\ [][BuyHoldNext]_vars

----------------------------------------------------------------------------
\* StatisticalTester.run_cross_sectional_test, one step per call it makes and
\* per iteration of its loop.  The bars of the files and the backtest of an
\* instrument are not followed: what they lead to is chosen freely.

\* StatisticalTester(), lines 146-155
TesterInit ==
    /\ pc = "idle"
    /\ NoBacktest /\ NoStrategy /\ NoSelector /\ NoTester

\* the count of a file, one more if it was parsed
Counted(count, file, parsed) ==
    IF parsed THEN [count EXCEPT ![file] = @ + 1] ELSE count

\* lines 180-185: run_cross_sectional_test is called, on a new tester or
\* after an earlier call returned or raised; the downloader gives the paths
\* of the two files
Invoke(sf, ef) ==
    /\ pc \in {"idle", "returned", "aborted"}
    /\ invocation < MaxInvocations
    /\ invocation' = invocation + 1
    /\ start_file' = sf
    /\ end_file' = ef
    /\ parses' = [f \in Files |-> 0]
    /\ selected_tickers' = <<>>
    /\ benchmark_return' = 0
    /\ ti' = 0
    /\ stat_results' = <<>>
    /\ summary' = {}
    /\ outcomes' = <<>>
    /\ pc' = "select"
    /\ UNCHANGED <<cached_data, cache_reads, cache_stores>>
    /\ UNCHANGED <<backtestVars, strategyVars, selectorVars>>

\* line 189 with line 110: select_stocks parses the start file itself, and
\* returns sel unless the parse raises
SelectStocksCall(sel, ok) ==
    /\ pc = "select"
    /\ ok \/ sel = <<>>
    /\ parses' = [parses EXCEPT ![start_file] = @ + 1]
    /\ selected_tickers' = sel
    /\ pc' = IF ok THEN "benchmark" ELSE "aborted"
    /\ UNCHANGED <<cached_data, start_file, end_file, benchmark_return, ti,
                   stat_results, summary, invocation, outcomes, cache_reads,
                   cache_stores>>
    /\ UNCHANGED <<backtestVars, strategyVars, selectorVars>>

\* line 193 with lines 233-254: _get_benchmark_return brings both files into
\* the cache and returns benchmark, unless a parse or the division by the
\* start price raises (fail), which ends the invocation
GetBenchmarkReturn(fail, benchmark) ==
    /\ pc = "benchmark"
    /\ fail = "none" \/ benchmark = 0
    /\ LET l1 == Tester_load(cached_data, start_file, invocation)
           l2 == Tester_load(l1.cache, end_file, invocation)
       IN  CASE fail = "start_parse" ->
                  /\ cached_data[start_file] = 0
                  /\ parses' = Counted(parses, start_file, TRUE)
                  /\ pc' = "aborted"
                  /\ UNCHANGED <<cached_data, cache_reads, cache_stores,
                                 benchmark_return, ti>>
             [] fail = "end_parse" ->
                  /\ l1.cache[end_file] = 0
                  /\ cached_data' = l1.cache
                  /\ parses' = Counted(Counted(parses, start_file, l1.parsed),
                                       end_file, TRUE)
                  /\ cache_stores' = Counted(cache_stores, start_file,
                                             l1.parsed)
                  /\ pc' = "aborted"
                  /\ UNCHANGED <<cache_reads, benchmark_return, ti>>
             [] OTHER ->
                  /\ cached_data' = l2.cache
                  /\ parses' = Counted(Counted(parses, start_file, l1.parsed),
                                       end_file, l2.parsed)
                  /\ cache_stores' = Counted(Counted(cache_stores, start_file,
                                                     l1.parsed),
                                             end_file, l2.parsed)
                  /\ cache_reads' = cache_reads \cup
                                      {<<l2.cache[start_file], invocation>>,
                                       <<l2.cache[end_file], invocation>>}
                  /\ IF fail = "division"
                     THEN pc' = "aborted" /\ UNCHANGED <<benchmark_return, ti>>
                     ELSE /\ pc' = "loop"
                          /\ benchmark_return' = benchmark
                          /\ ti' = 1
    /\ UNCHANGED <<start_file, end_file, selected_tickers, stat_results,
                   summary, invocation, outcomes>>
    /\ UNCHANGED <<backtestVars, strategyVars, selectorVars>>

\* lines 200-226: one iteration of the loop: the instrument's bars are taken
\* from the cache (lines 256-276), and the backtest ends in outcome, with
\* total_return r
ProcessInstrument(outcome, r) ==
    /\ pc = "loop"
    /\ ti <= Len(selected_tickers)
    /\ outcome = "ok" \/ r = 0
    /\ LET l1 == Tester_load(cached_data, start_file, invocation)
           l2 == Tester_load(l1.cache, end_file, invocation)
           u == Tester_process_instrument(stat_results, selected_tickers[ti],
                                          outcome, r, benchmark_return)
       IN  /\ cached_data' = l2.cache
           /\ parses' = Counted(Counted(parses, start_file, l1.parsed),
                                end_file, l2.parsed)
           /\ cache_stores' = Counted(Counted(cache_stores, start_file,
                                              l1.parsed),
                                      end_file, l2.parsed)
           /\ cache_reads' = cache_reads \cup
                               {<<l2.cache[start_file], invocation>>,
                                <<l2.cache[end_file], invocation>>}
           /\ stat_results' = u.results
           /\ ti' = IF u.continue THEN ti + 1 ELSE Len(selected_tickers) + 1
    /\ outcomes' = Append(outcomes, outcome)
    /\ UNCHANGED <<pc, start_file, end_file, selected_tickers,
                   benchmark_return, summary, invocation>>
    /\ UNCHANGED <<backtestVars, strategyVars, selectorVars>>

\* lines 228-231: after the loop the summary is computed and returned with
\* the list results
Summarise ==
    /\ pc = "loop"
    /\ ti > Len(selected_tickers)
    /\ summary' = {Tester_calculate_summary_stats(stat_results,
                                                  benchmark_return)}
    /\ pc' = "returned"
    /\ UNCHANGED <<cached_data, start_file, end_file, selected_tickers,
                   benchmark_return, ti, stat_results, invocation, parses,
                   outcomes, cache_reads, cache_stores>>
    /\ UNCHANGED <<backtestVars, strategyVars, selectorVars>>

BenchmarkFailures == {"none", "start_parse", "end_parse", "division"}

TesterNext ==
    \/ \E sf \in Files, ef \in Files : Invoke(sf, ef)
    \/ \E sel \in SelectedLists, ok \in BOOLEAN : SelectStocksCall(sel, ok)
    \/ \E fail \in BenchmarkFailures, benchmark \in BenchmarkReturns :
           GetBenchmarkReturn(fail, benchmark)
    \/ \E outcome \in Outcomes, r \in ReturnPcts :
           ProcessInstrument(outcome, r)
    \/ Summarise

TesterSpec == TesterInit /\ [][TesterNext]_vars

----------------------------------------------------------------------------
\* Calls of StockSelector.select_stocks on one file

\* a StockSelector, a file, and the random module as imported
SelectorInit ==
    /\ pc = "selector"
    /\ file_bars \in SelectorFiles
    /\ rng = 0
    /\ selections = <<>>
    /\ NoBacktest /\ NoStrategy /\ NoTester

\* selector.select_stocks(data_file, n_stocks, seed)
SelectStocks(n_stocks, seed) ==
    /\ pc = "selector"
    /\ selections = <<>>
    /\ LET r == Selector_select_stocks(file_bars, n_stocks, seed, rng)
       IN  /\ selections' = <<[n_stocks |-> n_stocks, seed |-> seed,
                               rng_before |-> rng, tickers |-> r.tickers]>>
           /\ rng' = r.rng
    /\ UNCHANGED <<pc, file_bars>>
    /\ UNCHANGED <<backtestVars, strategyVars, testerVars>>

\* the same call once more, on the same file
SelectStocksAgain ==
    /\ pc = "selector"
    /\ Len(selections) = 1
    /\ LET e == selections[1]
           r == Selector_select_stocks(file_bars, e.n_stocks, e.seed, rng)
       IN  /\ selections' = Append(selections,
                                [e EXCEPT !.rng_before = rng,
                                          !.tickers = r.tickers])
           /\ rng' = r.rng
    /\ UNCHANGED <<pc, file_bars>>
    /\ UNCHANGED <<backtestVars, strategyVars, testerVars>>

\* other code draws a number from the random module
RandomDraw ==
    /\ pc = "selector"
    /\ rng' = RngNext(rng)
    /\ UNCHANGED <<pc, file_bars, selections>>
    /\ UNCHANGED <<backtestVars, strategyVars, testerVars>>

SelectorNext ==
    \/ \E n_stocks \in 0..MaxRows, seed \in Seeds : SelectStocks(n_stocks, seed)
    \/ SelectStocksAgain
    \/ RandomDraw

SelectorSpec == SelectorInit /\ [][SelectorNext]_vars

----------------------------------------------------------------------------
\* Properties of Portfolio.execute_order, read off the history of the last
\* call: last holds the arguments, the outcome and the fields before the call

Executed == last.op = "execute_order"
Now == ValueOf(positions, heap)
\* the signed change of the ticker's quantity the last order asks for
Delta == IF last.order.side = "buy" THEN last.order.quantity
                                    ELSE 0 - last.order.quantity
TradeValue == last.order.quantity * last.price
PriorOf(t) == CHOOSE p \in last.pos[t] : TRUE
CurrentOf(t) == CHOOSE p \in Now[t] : TRUE

\* C1: a buy at a positive price whose value q*p is at most the cash
\* (q*p = cash included) returns True, takes exactly q*p from cash, adds
\* exactly q to the ticker's signed quantity and leaves every other ticker's
\* position as it was.
C1_BuyWithinCash ==
    (Executed /\ last.order.side = "buy" /\ last.price > 0
        /\ TradeValue <= last.cash)
    => /\ last.ret = "True"
       /\ cash = last.cash - TradeValue
       /\ QtyOf(Now, last.order.ticker)
            = QtyOf(last.pos, last.order.ticker) + last.order.quantity
       /\ \A u \in Tickers \ {last.order.ticker} : Now[u] = last.pos[u]

\* a buy that spends the cash to the last unit while another ticker is held
C1_Witness ==
    /\ Executed /\ last.order.side = "buy" /\ last.price > 0
    /\ TradeValue = last.cash /\ last.ret = "True" /\ cash = 0
    /\ \E u \in Tickers \ {last.order.ticker} : Now[u] # {}

\* C2: a buy whose value q*p exceeds the cash returns False, raises nothing
\* and leaves cash and the whole position map as they were, also when the
\* buy would only cover an existing short.
C2_BuyBeyondCash ==
    (Executed /\ last.order.side = "buy" /\ last.price > 0
        /\ TradeValue > last.cash)
    => /\ last.ret = "False"
       /\ cash = last.cash
       /\ Now = last.pos

\* a declined buy that would only have covered part or all of a short
C2_Witness ==
    /\ Executed /\ last.order.side = "buy" /\ TradeValue > last.cash
    /\ last.ret = "False"
    /\ QtyOf(last.pos, last.order.ticker) + last.order.quantity <= 0

C4_AverageCostOnAdd ==
    (Executed /\ last.ret = "True")
    => LET t == last.order.ticker
       IN  /\ last.pos[t] = {}
              => Now[t] = {Position(t, Delta, RatOfInt(last.price))}
           /\ (last.pos[t] # {} /\ PriorOf(t).quantity * Delta > 0)
              => /\ Now[t] # {}
                 /\ CurrentOf(t).ticker = t
                 /\ CurrentOf(t).quantity = PriorOf(t).quantity + Delta
                 /\ CurrentOf(t).avg_cost[1] * PriorOf(t).avg_cost[2]
                        * (PriorOf(t).quantity + Delta)
                    = (PriorOf(t).quantity * PriorOf(t).avg_cost[1]
                         + Delta * last.price * PriorOf(t).avg_cost[2])
                        * CurrentOf(t).avg_cost[2]

\* a buy added to a long at a price other than its average cost
C4_Witness ==
    /\ Executed /\ last.ret = "True"
    /\ last.pos[last.order.ticker] # {}
    /\ PriorOf(last.order.ticker).quantity * Delta > 0
    /\ PriorOf(last.order.ticker).avg_cost # RatOfInt(last.price)
    /\ CurrentOf(last.order.ticker).avg_cost[2] > 1

\* C5: an executed order whose change D has the opposite sign of the prior
\* quantity and leaves a non-zero quantity keeps avg_cost at its prior value,
\* when the position shrinks and when it changes sign alike.
C5_AverageCostKeptOnReduce ==
    (Executed /\ last.ret = "True")
    => LET t == last.order.ticker
       IN  (last.pos[t] # {} /\ PriorOf(t).quantity * Delta < 0
               /\ PriorOf(t).quantity + Delta # 0)
           => /\ Now[t] # {}
              /\ CurrentOf(t).quantity = PriorOf(t).quantity + Delta
              /\ CurrentOf(t).avg_cost = PriorOf(t).avg_cost

\* a long turned into a short by a sell at a price other than its avg_cost
C5_Witness ==
    /\ Executed /\ last.ret = "True"
    /\ last.pos[last.order.ticker] # {}
    /\ PriorOf(last.order.ticker).quantity > 0
    /\ QtyOf(Now, last.order.ticker) < 0
    /\ PriorOf(last.order.ticker).avg_cost # RatOfInt(last.price)

\* C6: after any sequence of execute_order calls no stored position has
\* quantity 0 and each is stored under its own ticker; an order that brings
\* a ticker to 0 removes the entry, so that get_position returns None and
\* the ticker is no key of get_positions().
C6_NoFlatEntries ==
    /\ \A t \in Tickers :
          positions[t] # NoRef
          => ~is_flat(heap[positions[t]]) /\ heap[positions[t]].ticker = t
    /\ (Executed /\ last.ret = "True"
          /\ QtyOf(last.pos, last.order.ticker) + Delta = 0)
       => /\ Portfolio_get_position(positions, last.order.ticker) = NoRef
          /\ Portfolio_get_positions(positions)[last.order.ticker] = NoRef

\* an order that closes a position
C6_Witness ==
    /\ Executed /\ last.ret = "True"
    /\ last.pos[last.order.ticker] # {}
    /\ QtyOf(last.pos, last.order.ticker) + Delta = 0
    /\ positions[last.order.ticker] = NoRef

\* C7: execute_order with execution_price <= 0 raises, for a buy and for a
\* sell, and leaves cash and the position map as they were.
C7_InvalidPriceRejected ==
    (Executed /\ last.price <= 0)
    => /\ last.ret = "ValueError"
       /\ cash = last.cash
       /\ Now = last.pos

\* a sell at price 0 of a ticker that is held
C7_Witness ==
    /\ Executed /\ last.price <= 0 /\ last.order.side = "sell"
    /\ last.ret = "ValueError"
    /\ last.pos[last.order.ticker] # {}

\* C8: two get_positions() calls with no execute_order between them return
\* equal values, and nothing a caller does to a returned dict (setting or
\* deleting an entry, assigning to a field of a Position in it) changes
\* what get_position and get_positions return afterwards.
C8_SnapshotIsolated ==
    /\ (last.op = "get_positions" /\ last.prev # {})
       => last.prev = {ValueOf(Portfolio_get_positions(positions), heap)}
    /\ last.op \in {"snap_set", "snap_delete", "snap_modify"}
       => ValueOf(Portfolio_get_positions(positions), heap) = last.pos

\* C9: the Position Engine.run hands to strategy.update_position is a copy:
\* a strategy that assigns to its quantity or avg_cost leaves the Portfolio's
\* position for that ticker as it was.
C9_StrategyCopyIsolated ==
    last.op = "strategy_mutate" => Now = last.pos

\* C10: during and at the end of Engine.run, for a strategy that started
\* with an empty view and uses the base update_position, the strategy's
\* position view equals the Portfolio's position map for every ticker.
C10_StrategyViewMatches ==
    \A t \in Tickers :
        IF Strategy_get_position(spos, t) = NoRef
        THEN Portfolio_get_position(positions, t) = NoRef
        ELSE /\ Portfolio_get_position(positions, t) # NoRef
             /\ heap[Strategy_get_position(spos, t)]
                  = heap[Portfolio_get_position(positions, t)]

\* the second executed order of a run closed the position the first opened,
\* after which neither the strategy nor the Portfolio holds it
C10_Witness ==
    /\ pc \in {"bar", "orders"}
    /\ Executed /\ last.ret = "True" /\ executed_orders = 2
    /\ last.pos[last.order.ticker] # {}
    /\ spos[last.order.ticker] = NoRef
    /\ positions[last.order.ticker] = NoRef

----------------------------------------------------------------------------
\* Properties of Engine.run

\* the orders of the current list that have not been executed yet
Unprocessed ==
    IF pc = "orders" THEN Len(orders) - k + 1
    ELSE IF pc = "raised" THEN Len(orders) - k
    ELSE 0

TheResults == CHOOSE r \in results : TRUE

\* C11: in Engine.run total_orders is the number of orders on_data returned
\* over the bars so far, executed_orders is the number of execute_order
\* calls that returned True, and executed_orders <= total_orders; every
\* order returned is passed to execute_order, and the Results carry both
\* counters.  A buy declined for insufficient funds raises nothing, is counted
\* in total_orders only, leaves cash and positions as they were, and the
\* run goes on to the next order or bar.
C11_OrderCounts ==
    /\ total_orders = NumOrders(script)
    /\ calls.execute_order = NumOrders(script) - Unprocessed
    /\ executed_orders = calls.returned_true
    /\ executed_orders <= total_orders
    /\ pc = "done"
       => /\ TheResults.total_orders = NumOrders(script)
          /\ TheResults.executed_orders = calls.returned_true
    /\ (Executed /\ last.order.side = "buy" /\ last.price > 0
          /\ TradeValue > last.cash)
       => /\ last.ret = "False"
          /\ pc \in {"orders", "bar"}
          /\ cash = last.cash
          /\ Now = last.pos

\* the first order of a run was a declined buy and the second was executed
C11_Witness ==
    /\ Executed /\ last.ret = "True"
    /\ total_orders = 2 /\ executed_orders = 1
    /\ calls.execute_order = 2 /\ calls.returned_true = 1

\* the index in data of the bar whose on_data returned the last order
LastBar == IF pc = "bar" THEN idx - 1 ELSE idx

TheFirst == CHOOSE f \in first : TRUE

\* C12: every order is executed at the close of the bar whose on_data call
\* returned it, whatever the order's ticker and whatever its price field:
\* the cash moves by quantity times that close.  A second run on the same
\* bars whose strategy returns the same orders, with price fields absent or
\* set to any positive limit, ends with the same Results and the same
\* positions as the first.
C12_FilledAtBarClose ==
    /\ Executed
       => /\ last.price = data[LastBar].close
          /\ last.ret = "True"
             => cash = last.cash - Delta * data[LastBar].close
    /\ (first # {} /\ pc = "done")
       => /\ results = TheFirst.results
          /\ Now = TheFirst.final

\* a second run has ended in which an executed order carried a limit price
\* other than the close of its bar and the ticker of another instrument
C12_Witness ==
    /\ first # {} /\ pc = "done"
    /\ executed_orders = total_orders
    /\ \E i \in 1..Len(script) : \E j \in 1..Len(script[i]) :
          /\ script[i][j].price # NoPrice
          /\ script[i][j].price # data[i].close
          /\ script[i][j].ticker # data[i].ticker
          /\ TheFirst.script[i][j].price = NoPrice

\* the sum of f over the set S
RECURSIVE SumOver(_, _)
SumOver(S, f) ==
    IF S = {} THEN 0
    ELSE LET x == CHOOSE y \in S : TRUE
         IN  f[x] + SumOver(S \ {x}, f)

\* the close of the last bar in input order that carries ticker t, 0 when
\* no bar carries it
LastCloseOf(t) ==
    IF \E i \in 1..Len(data) : data[i].ticker = t
    THEN LET i == CHOOSE j \in 1..Len(data) :
                      /\ data[j].ticker = t
                      /\ \A h \in 1..Len(data) : data[h].ticker = t => h <= j
         IN  data[i].close
    ELSE 0

\* C13: the final_portfolio_value Engine.run returns is the final cash plus,
\* per held position, its quantity times the close of the last bar in input
\* order that carries its ticker, a ticker that no bar carries adding
\* nothing; start_date and end_date are the timestamps of the first and the
\* last bar as given, in whatever order the timestamps are.
C13_FinalValuation ==
    pc = "done"
    => /\ TheResults.final_portfolio_value
            = RatOfInt(cash + SumOver(Tickers,
                  [t \in Tickers |-> QtyOf(Now, t) * LastCloseOf(t)]))
       /\ TheResults.final_cash = cash
       /\ TheResults.start_date = data[1].timestamp
       /\ TheResults.end_date = data[Len(data)].timestamp

\* a run has ended on two bars of one ticker given latest first, with
\* different closes, holding that ticker and a ticker no bar carries
C13_Witness ==
    /\ pc = "done" /\ Len(data) = 2
    /\ data[1].timestamp > data[2].timestamp
    /\ data[1].ticker = data[2].ticker
    /\ data[1].close # data[2].close
    /\ QtyOf(Now, data[1].ticker) # 0
    /\ \E t \in Tickers \ {data[1].ticker} : QtyOf(Now, t) # 0
    /\ TheResults.start_date > TheResults.end_date

\* C14: calculate_portfolio_value(prices) returns the cash plus, over the
\* held positions whose ticker is a key of prices, the signed quantity times
\* prices[ticker], so that a short position subtracts; a held ticker that is
\* no key of prices adds nothing and raises nothing; the call leaves cash
\* and positions as they were.
C14_PortfolioValue ==
    last.op = "calculate_portfolio_value"
    => /\ last.value
            = last.cash
              + SumOver({t \in Tickers : last.pos[t] # {}}
                           \cap DOMAIN last.prices,
                        [t \in Tickers |->
                            IF t \in DOMAIN last.prices
                            THEN QtyOf(last.pos, t) * last.prices[t]
                            ELSE 0])
       /\ cash = last.cash
       /\ Now = last.pos

\* a valuation with a short position that is priced and a held ticker that
\* is not
C14_Witness ==
    /\ last.op = "calculate_portfolio_value"
    /\ \E t \in DOMAIN last.prices :
          QtyOf(last.pos, t) < 0 /\ last.prices[t] > 0
    /\ \E u \in Tickers \ DOMAIN last.prices : last.pos[u] # {}
    /\ last.value < last.cash

\* run was entered with empty data: it has raised, no method of the strategy
\* has been called and no Portfolio exists
EmptyDataRaised ==
    data = <<>> /\ pc # "start"
    => /\ pc = "raised"
       /\ calls = NoCalls
       /\ script = <<>>
       /\ spos = EmptyDict
       /\ initial_cash = 0 /\ cash = 0 /\ positions = EmptyDict
       /\ results = {}

BuyFirstSellLast ==
    /\ Len(data) >= 2 /\ Len(script) >= 1
    /\ \A i \in 1..Len(data) : data[i].ticker = data[1].ticker
    /\ Len(script[1]) = 1
    /\ script[1][1].side = "buy"
    /\ script[1][1].ticker = data[1].ticker
    /\ script[1][1].quantity * data[1].close <= engine_cash
    /\ \A i \in 2..Len(script) :
          IF i < Len(data)
          THEN script[i] = <<>>
          ELSE /\ Len(script[i]) = 1
               /\ script[i][1].side = "sell"
               /\ script[i][1].ticker = data[1].ticker
               /\ script[i][1].quantity = script[1][1].quantity

\* what such a run yields: it does not raise, and returns total_orders = 2,
\* executed_orders = 2, final_cash = C + q*(pN - p1) and
\* final_portfolio_value = final_cash with no position open
RoundTripResults ==
    /\ pc # "raised"
    /\ pc = "done"
       => /\ TheResults.total_orders = 2
          /\ TheResults.executed_orders = 2
          /\ TheResults.initial_cash = engine_cash
          /\ TheResults.final_cash
               = engine_cash + script[1][1].quantity
                                 * (data[Len(data)].close - data[1].close)
          /\ TheResults.final_portfolio_value
               = RatOfInt(TheResults.final_cash)
          /\ positions = EmptyDict
          /\ spos = EmptyDict

\* C16 as stated: an Engine with initial cash C run on at least two bars of
\* one ticker, with a strategy that buys q shares on the first bar (close
\* p1, q*p1 <= C), sells q shares on the last bar (close pN) and orders
\* nothing else, yields total_orders = 2, executed_orders = 2,
\* final_cash = C + q*(pN - p1), no open position and
\* final_portfolio_value = final_cash.
C16_RoundTripAnyClose ==
    BuyFirstSellLast => RoundTripResults

\* C16, amended: the same for closes p1 > 0 and pN > 0.
C16_RoundTrip ==
    (BuyFirstSellLast /\ data[1].close > 0 /\ data[Len(data)].close > 0)
    => RoundTripResults

\* such a run has ended with a last close other than the first
C16_Witness ==
    /\ pc = "done" /\ BuyFirstSellLast
    /\ data[1].close > 0 /\ data[Len(data)].close > data[1].close
    /\ TheResults.final_cash > engine_cash
    /\ TheResults.executed_orders = 2

\* C17: on a non-empty bar sequence with a strategy that returns no order on
\* any bar, Engine.run raises nothing and returns total_orders = 0,
\* executed_orders = 0, final_cash = final_portfolio_value = initial_cash,
\* total_return = 0 and execution_rate = 0, and update_position is never
\* called.
C17_NoOrders ==
    /\ (data # <<>> /\ NumOrders(script) = 0) => pc # "raised"
    /\ (pc = "done" /\ NumOrders(script) = 0)
       => /\ TheResults.total_orders = 0
          /\ TheResults.executed_orders = 0
          /\ TheResults.final_cash = engine_cash
          /\ TheResults.final_portfolio_value = RatOfInt(engine_cash)
          /\ Results_total_return(TheResults) = RatOfInt(0)
          /\ Results_execution_rate(TheResults) = RatOfInt(0)
          /\ calls.update_position = 0
          /\ spos = EmptyDict

\* a run on two bars, one of them with close 0, has ended without an order
C17_Witness ==
    /\ pc = "done" /\ Len(data) = 2 /\ calls.on_data = 2
    /\ NumOrders(script) = 0
    /\ data[1].close = 0 /\ data[2].close > 0
    /\ TheResults.total_orders = 0

\* C18: execution_rate is 0 when total_orders = 0 and executed_orders /
\* total_orders otherwise, stated as rate * total_orders = executed_orders;
\* for the Results of every run the denominator is not 0 and the rate lies
\* between 0 and 1.
C18_ExecutionRate ==
    pc = "done"
    => LET r == TheResults
           rate == Results_execution_rate(r)
       IN  /\ r.total_orders = 0 => rate = RatOfInt(0)
           /\ r.total_orders > 0
              => rate[1] * r.total_orders = r.executed_orders * rate[2]
           /\ rate[2] > 0
           /\ 0 <= rate[1] /\ rate[1] <= rate[2]

\* a run has ended with one of its two orders executed
C18_Witness ==
    /\ pc = "done"
    /\ TheResults.total_orders = 2 /\ TheResults.executed_orders = 1
    /\ Results_execution_rate(TheResults) = <<1, 2>>

TheBase == CHOOSE r \in base_results : TRUE

\* what TransactionCostEngine.run returns, but for the sign of the deduction:
\* on_data was called once per bar, and the Results equal what the base run
\* returned (the final cash, counters and first and last timestamps of the
\* run) in every field but final_portfolio_value, which is the base value
\* less (initial_cash - final_cash) * transaction_cost_pct
CostAdjusted ==
    LET r == TheResults
        b == TheBase
        v == r.final_portfolio_value
        w == b.final_portfolio_value
    IN  /\ calls.on_data = Len(data) /\ Len(script) = Len(data)
        /\ b.initial_cash = engine_cash /\ b.final_cash = cash
        /\ b.total_orders = total_orders
        /\ b.executed_orders = executed_orders
        /\ [r EXCEPT !.final_portfolio_value = w] = b
        \* w - v = (initial_cash - final_cash) * transaction_cost_pct
        /\ (w[1] * v[2] - v[1] * w[2]) * transaction_cost_pct[2]
             = (r.initial_cash - r.final_cash) * transaction_cost_pct[1]
                 * w[2] * v[2]
        /\ v[2] > 0 /\ w[2] > 0
        /\ r.executed_orders = 0 => v = w

\* the deduction, base value less returned value, is negative
DeductionNegative ==
    TheResults.final_portfolio_value[1] * TheBase.final_portfolio_value[2]
      > TheBase.final_portfolio_value[1] * TheResults.final_portfolio_value[2]

\* C19 as stated: TransactionCostEngine.run drives the strategy through the
\* bars once and returns the base Results with final_portfolio_value less
\* (initial_cash - final_cash) * transaction_cost_pct, a deduction that is 0
\* when nothing was traded and negative when final_cash > initial_cash.
C19_CostAdjustmentAnyRate ==
    (pc = "done" /\ engine_class = "TransactionCostEngine")
    => /\ CostAdjusted
       /\ TheResults.final_cash > TheResults.initial_cash
          => DeductionNegative

\* C19, amended: the deduction is negative when final_cash > initial_cash
\* and transaction_cost_pct > 0.
C19_CostAdjustment ==
    (pc = "done" /\ engine_class = "TransactionCostEngine")
    => /\ CostAdjusted
       /\ (TheResults.final_cash > TheResults.initial_cash
             /\ transaction_cost_pct[1] > 0)
          => DeductionNegative

\* a TransactionCostEngine with the default rate has returned from a run
\* that left more cash than it started with, and a value above the base one
C19_Witness ==
    /\ pc = "done" /\ engine_class = "TransactionCostEngine"
    /\ transaction_cost_pct = DefaultCostPct
    /\ TheResults.final_cash > TheResults.initial_cash
    /\ TheResults.final_portfolio_value[2] > 1
    /\ DeductionNegative

\* C20: each run builds a new Portfolio with cash = the engine's
\* initial_cash and no positions and starts its counters at 0; a run leaves
\* the engine's fields and the bar list as they were; a second run of the
\* same engine on the same bars with a new strategy that returns the same
\* orders ends with the Results of the first run.
C20_RunsIndependent ==
    /\ (last.op = "run" /\ pc = "bar")
       => /\ cash = engine_cash /\ initial_cash = engine_cash
          /\ positions = EmptyDict
          /\ total_orders = 0 /\ executed_orders = 0
    /\ first # {}
       => /\ TheFirst.engine
               = <<engine_cash, engine_class, transaction_cost_pct>>
          /\ TheFirst.data = data
    /\ (first # {} /\ pc = "done" /\ script = TheFirst.script)
       => results = TheFirst.results

\* the second run of a TransactionCostEngine has ended with the same orders
\* as the first, which had left positions open and the cash changed
C20_Witness ==
    /\ first # {} /\ pc = "done" /\ script = TheFirst.script
    /\ engine_class = "TransactionCostEngine"
    /\ TheFirst.final # ValueOf(EmptyDict, heap)
    /\ \E r \in TheFirst.results : r.final_cash # engine_cash
    /\ results = TheFirst.results

----------------------------------------------------------------------------
\* Invariants of the Portfolio over whole call sequences

\* C28: in every state of a Portfolio built with initial_cash > 0, after any
\* sequence of execute_order calls (executed, declined or rejected, long or
\* short), cash >= 0 and initial_cash is still the constructor's argument.
C28_CashNeverNegative ==
    /\ cash >= 0
    /\ initial_cash = InitialCash

\* a buy has taken the last of the cash while a short position was open that
\* had brought the cash above the initial cash
C28_Witness ==
    /\ Executed /\ last.ret = "True" /\ last.order.side = "buy"
    /\ last.cash > initial_cash
    /\ cash = 0
    /\ \E t \in Tickers : QtyOf(Now, t) < 0

\* C29: in every reachable Portfolio state every stored position has
\* avg_cost > 0; execute_order with a positive price never raises; and when
\* a call has moved the cash, the ticker's quantity has moved by the order's
\* signed quantity.
C29_PositionsValid ==
    /\ \A t \in Tickers : \A p \in Now[t] : p.avg_cost[1] > 0
    /\ (Executed /\ last.price > 0) => last.ret # "ValueError"
    /\ (Executed /\ cash # last.cash)
       => QtyOf(Now, last.order.ticker)
            = QtyOf(last.pos, last.order.ticker) + Delta

\* the value calculate_portfolio_value(m) gives for cash c and the positions
\* of a view
ValueAt(c, view, m) ==
    c + SumOver(DOMAIN m,
                [t \in DOMAIN m |-> QtyOf(view, t) * m[t]])

\* the orders the strategy returned in this run are all for ticker t
AllOrdersFor(t) ==
    \A i \in 1..Len(script) : \A j \in 1..Len(script[i]) :
        script[i][j].ticker = t

\* C30: an executed buy or sell of ticker T at price p > 0 leaves
\* calculate_portfolio_value(m) as it was for every price map m with
\* m[T] = p, whether the trade opens, extends, reduces, closes or reverses
\* the position; and a run of the base Engine over a single bar in which
\* every order is for the bar's ticker returns final_portfolio_value =
\* initial_cash.
C30_MarkPriceNeutral ==
    /\ (Executed /\ last.ret = "True")
       => \A m \in PriceMaps :
             (last.order.ticker \in DOMAIN m
                /\ m[last.order.ticker] = last.price)
             => Portfolio_calculate_portfolio_value(cash, positions, heap, m)
                  = ValueAt(last.cash, last.pos, m)
    /\ (pc = "done" /\ Len(data) = 1 /\ AllOrdersFor(data[1].ticker))
       => TheResults.final_portfolio_value
            = RatOfInt(TheResults.initial_cash)

\* a run on a single bar has ended in which a sell reversed a long position
\* of the bar's ticker into a short one, so that the cash is above the
\* initial cash and the value is not
C30_Witness ==
    /\ pc = "done" /\ Len(data) = 1 /\ AllOrdersFor(data[1].ticker)
    /\ TheResults.executed_orders = 2
    /\ script[1][1].side = "buy" /\ script[1][2].side = "sell"
    /\ QtyOf(Now, data[1].ticker) < 0
    /\ TheResults.final_cash > TheResults.initial_cash

----------------------------------------------------------------------------
\* The order of the calls Engine.run makes, read off the log of the run

Log == calls.log

\* the number of on_data calls among the first p entries of the log
BarsBegun(p) == Cardinality({q \in 1..p : Log[q].op = "on_data"})

\* the log entry of the b-th on_data call
OnDataAt(b) == CHOOSE q \in 1..Len(Log) :
                   Log[q].op = "on_data" /\ BarsBegun(q) = b

\* the number of execute_order calls among the entries p from..to
ExecutedBetween(from, to) ==
    Cardinality({q \in from..to : Log[q].op = "execute_order"})

\* C27: Engine.run calls on_data once per bar, in the order of the input
\* sequence whatever the timestamps; the orders returned for a bar are
\* executed one at a time in list order at that bar's close, all of them
\* before on_data is called for the next bar; update_position is called
\* exactly once after each execution that returned True, for that order's
\* ticker and before the next order is executed, and never after a declined
\* order; so a buy later in a list is funded by the cash as an earlier sell
\* of the same list left it.
C27_CallOrder ==
    /\ BarsBegun(Len(Log)) = calls.on_data
    /\ calls.on_data <= Len(data)
    /\ pc = "done" => calls.on_data = Len(data)
    /\ \A b \in 1..calls.on_data :
          /\ Log[OnDataAt(b)].bar = data[b]
          \* the list of bar b was executed in full before bar b + 1
          /\ b < calls.on_data
             => ExecutedBetween(OnDataAt(b), OnDataAt(b + 1)) = Len(script[b])
    /\ \A p \in 1..Len(Log) :
          /\ Log[p].op = "execute_order"
             => LET b == BarsBegun(p)
                    j == ExecutedBetween(OnDataAt(b), p)
                IN  /\ j <= Len(script[b])
                    /\ Log[p].order = script[b][j]
                    /\ Log[p].price = data[b].close
                    /\ Log[p].ret = "True"
                       => /\ p < Len(Log)
                          /\ Log[p + 1]
                               = UpdatePositionCall(Log[p].order.ticker)
                    \* the next order of the list finds the cash this one left
                    /\ (p + 2 <= Len(Log) /\ Log[p].ret = "True"
                          /\ Log[p + 2].op = "execute_order")
                       => Log[p + 2].cash
                            = Log[p].cash
                              + (IF is_buy(Log[p].order) THEN 0 - 1 ELSE 1)
                                  * Log[p].order.quantity * Log[p].price
                    /\ (is_buy(Log[p].order) /\ Log[p].price > 0)
                       => (Log[p].ret = "True"
                             <=> Log[p].order.quantity * Log[p].price
                                    <= Log[p].cash)
          /\ Log[p].op = "update_position"
             => /\ p > 1
                /\ Log[p - 1].op = "execute_order"
                /\ Log[p - 1].ret = "True"
    /\ calls.update_position = calls.returned_true

\* a run on two bars given latest first has ended; on its first bar a sell
\* was executed and then a buy of the same list that the initial cash alone
\* would not have paid for, and a buy of the second bar was declined
C27_Witness ==
    /\ pc = "done" /\ Len(data) = 2
    /\ data[1].timestamp > data[2].timestamp
    /\ \E p \in 1..Len(Log) :
          /\ p + 2 <= Len(Log)
          /\ Log[p].op = "execute_order" /\ Log[p].order.side = "sell"
          /\ Log[p].ret = "True"
          /\ Log[p + 2].op = "execute_order" /\ is_buy(Log[p + 2].order)
          /\ Log[p + 2].ret = "True"
          /\ Log[p + 2].order.quantity * Log[p + 2].price > engine_cash
          /\ BarsBegun(p + 2) = 1

----------------------------------------------------------------------------
\* Properties of BuyAndHoldStrategy

\* bar i is one the strategy can buy at least one share on
Affordable(i) ==
    data[i].close > 0 /\ investment_per_ticker \div data[i].close >= 1

\* bar i is the first bar of its ticker with floor(investment / close) >= 1
FirstAffordable(i) ==
    /\ Affordable(i)
    /\ \A h \in 1..(i - 1) : data[h].ticker = data[i].ticker => ~Affordable(h)

\* C25: over the on_data calls of a run, BuyAndHoldStrategy returns at most
\* one order per ticker: the first bar of a ticker with
\* floor(investment_per_ticker / close) >= 1 yields exactly one market buy of
\* that quantity, every other bar yields no order, whether that buy was
\* executed or declined; a bar with close > investment_per_ticker yields no
\* order and leaves the ticker to a later bar.
C25_BuysOncePerTicker ==
    /\ \A t \in Tickers :
          Cardinality({<<i, j>> \in (1..Len(script)) \X (1..MaxOrders) :
                          j <= Len(script[i]) /\ script[i][j].ticker = t}) <= 1
    /\ \A i \in 1..Len(script) :
          IF FirstAffordable(i)
          THEN script[i] = <<[side |-> "buy", ticker |-> data[i].ticker,
                              quantity |-> investment_per_ticker
                                             \div data[i].close,
                              price |-> NoPrice]>>
          ELSE script[i] = <<>>
    /\ \A i \in 1..Len(script) :
          data[i].close > investment_per_ticker
          => /\ script[i] = <<>>
             /\ (data[i].ticker \in bought_tickers
                   => \E h \in 1..Len(script) : h # i /\ FirstAffordable(h)
                         /\ data[h].ticker = data[i].ticker)

\* a run on two bars of one ticker has ended: the buy returned on the first
\* bar was declined, and the second bar, on which a share could have been
\* bought and paid for, got no order
C25_Witness ==
    /\ pc = "done" /\ Len(data) = 2
    /\ data[1].ticker = data[2].ticker
    /\ Len(script[1]) = 1 /\ script[2] = <<>>
    /\ total_orders = 1 /\ executed_orders = 0
    /\ Affordable(2)
    /\ data[2].close <= cash
    /\ positions = EmptyDict

----------------------------------------------------------------------------
\* Properties of StatisticalTester.run_cross_sectional_test

\* the instruments among the first Len(outs) of sel that succeeded, in order
RECURSIVE Successes(_, _)
Successes(sel, outs) ==
    IF outs = <<>> THEN <<>>
    ELSE LET n == Len(outs)
             before == Successes(sel, SubSeq(outs, 1, n - 1))
         IN  IF outs[n] = "ok" THEN Append(before, sel[n]) ELSE before

TheSummary == CHOOSE x \in summary : TRUE

\* C21: in run_cross_sectional_test a failure while processing one selected
\* instrument (an exception from loading its bars, constructing its
\* strategy, running the engine or computing its result, or fewer than 2
\* bars) skips only that instrument: the loop goes on to every remaining
\* instrument, the returned list holds exactly the instruments that
\* succeeded, in selection order, and summary.n_stocks is its length.
C21_FailureSkipsOneInstrument ==
    /\ pc \in {"loop", "returned"}
       => /\ Len(outcomes) = ti - 1
          /\ [i \in 1..Len(stat_results) |-> stat_results[i].ticker]
               = Successes(selected_tickers, outcomes)
    /\ pc = "returned"
       => /\ Len(outcomes) = Len(selected_tickers)
          /\ TheSummary.n_stocks = Len(stat_results)

\* an invocation has returned in which the first of two instruments failed
\* in engine.run and the second succeeded
C21_Witness ==
    /\ pc = "returned" /\ Len(selected_tickers) = 2
    /\ outcomes = <<"run_error", "ok">>
    /\ Len(stat_results) = 1
    /\ stat_results[1].ticker = selected_tickers[2]
    /\ TheSummary.n_stocks = 1

\* C22: within one run_cross_sectional_test invocation each data file is
\* parsed by the data loader at most once, the parsing for stock selection
\* and for the benchmark included.
C22_ParsedAtMostOnce ==
    \A f \in Files : parses[f] <= 1

\* C23: the parsed-file cache is write-once per file path with no eviction,
\* and an entry stored during one invocation is never read by a later
\* invocation on the same StatisticalTester: each invocation starts with an
\* empty cache.
C23_CacheScopedToInvocation ==
    /\ \A f \in Files : /\ cache_stores[f] <= 1
                        /\ cache_stores[f] = 1 <=> cached_data[f] # 0
    /\ \A rd \in cache_reads : rd[1] = rd[2]
    /\ pc = "select" => \A f \in Files : cached_data[f] = 0

\* the returns of the list results
ReturnsOf(res) == [i \in 1..Len(res) |-> res[i].return_pct]

\* C24: _calculate_summary_stats on a sample of n <= 1 results, n = 0
\* included, or with zero sample standard deviation (all returns equal)
\* returns t_statistic = 0, p_value = 1, is_significant = false and a
\* confidence interval whose two ends both equal mean_return, which is the
\* mean of the returns (0 for no returns).
C24_DegenerateSample ==
    (pc = "returned"
       /\ \/ Len(stat_results) <= 1
          \/ \A i, j \in 1..Len(stat_results) :
                stat_results[i].return_pct = stat_results[j].return_pct)
    => LET x == TheSummary
           n == Len(stat_results)
       IN  /\ x.t_statistic.sign = 0
           /\ x.t_statistic.square = RatOfInt(0)
           /\ x.p_value = "1"
           /\ x.is_significant = FALSE
           /\ x.confidence_interval.center = x.mean_return
           /\ x.confidence_interval.margin_square = RatOfInt(0)
           /\ n > 0 => x.mean_return[1] * n
                         = SumSeq(ReturnsOf(stat_results)) * x.mean_return[2]
           /\ n = 0 => x.mean_return = RatOfInt(0)

\* an invocation has returned two results with the same return, other than
\* the benchmark's and other than 0
C24_Witness ==
    /\ pc = "returned" /\ Len(stat_results) = 2
    /\ stat_results[1].return_pct = stat_results[2].return_pct
    /\ stat_results[1].return_pct # 0
    /\ stat_results[1].return_pct # benchmark_return
    /\ TheSummary.confidence_interval.center # RatOfInt(0)
    /\ TheSummary.is_significant = FALSE

----------------------------------------------------------------------------
\* Properties of StockSelector.select_stocks

\* the rows of the file that pass the filters of the claim
EligibleRows ==
    {i \in 1..Len(file_bars) :
        /\ file_bars[i].close >= MinPrice
        /\ file_bars[i].volume >= MinVolume
        /\ isalpha(file_bars[i].ticker)
        /\ len(file_bars[i].ticker) <= 5}

RowProxy(i) == file_bars[i].close * file_bars[i].volume

\* the sets of rows that can be the pool: at most MaxCandidates eligible
\* rows, none of them with a smaller close*volume than an eligible row left
\* out
Pools ==
    {P \in SUBSET EligibleRows :
        /\ Cardinality(P) = Min(MaxCandidates, Cardinality(EligibleRows))
        /\ \A i \in P, j \in EligibleRows \ P : RowProxy(i) >= RowProxy(j)}

\* C26: select_stocks returns min(n_stocks, size of the pool) tickers, the
\* pool being the at most MaxCandidates rows of the file with the largest
\* close*volume among those with close >= min_price, volume >= min_volume
\* and an alphabetic ticker of at most 5 characters; every ticker returned
\* is the ticker of a row of the pool, each row at most once; and two calls
\* on the same file with the same seed return the same tickers in the same
\* order, whatever was drawn from the random module before each.
C26_SelectStocks ==
    /\ \A c \in 1..Len(selections) :
          LET e == selections[c]
          IN  \E P \in Pools :
                 /\ Len(e.tickers) = Min(e.n_stocks, Cardinality(P))
                 /\ \A i \in 1..Len(e.tickers) :
                       \E row \in P : file_bars[row].ticker = e.tickers[i]
                 /\ \A i, j \in 1..Len(e.tickers) :
                       i # j => e.tickers[i] # e.tickers[j]
    /\ Len(selections) = 2
       => selections[1].tickers = selections[2].tickers

\* two calls on a file with three eligible rows, so that one is left out of
\* the pool, and a row that fails a filter have returned two tickers, not
\* in file order, from different states of the generator
C26_Witness ==
    /\ Len(selections) = 2
    /\ selections[1].rng_before # selections[2].rng_before
    /\ Cardinality(EligibleRows) > MaxCandidates
    /\ Len(selections[2].tickers) = 2
    /\ \E i, j \in EligibleRows :
          /\ i < j
          /\ file_bars[j].ticker = selections[2].tickers[1]
          /\ file_bars[i].ticker = selections[2].tickers[2]

====
